---- MODULE Spec2Model ----
(***************************************************************************)
(* A model of the ownCloud WebDAV backend of csync                         *)
(* (src/modules/csync_owncloud.c): the session, the three caches, the      *)
(* listing contexts with their reference counts, the transfer handles and  *)
(* the error mapper, driven by a host that calls the VIO methods one at a  *)
(* time, against a small WebDAV server.                                    *)
(*                                                                         *)
(* Strings the code scans (paths, ETags) are sequences of one-character    *)
(* strings.  Every action is one whole VIO call.                           *)
(***************************************************************************)
EXTENDS Integers, Sequences, FiniteSets, TLC

(* ------------------------------------------------------------------ *)
(* Bounds of the model                                                 *)
(* ------------------------------------------------------------------ *)
\* host calls per behaviour
MaxCalls == 2
\* longest file body, in bytes
MaxBody == 1
\* directory handles the host holds at once
MaxDirHandles == 2
\* transport or server faults injected per behaviour
MaxFaults == 1
\* changes of the server's clock per behaviour
MaxDrifts == 1
\* calls of a host that lists, stats and changes the tree
MaxTreeCalls == 4
\* calls of a host that transfers files
MaxTransferCalls == 6
\* calls of a host that downloads and asks for content ids
MaxETagCalls == 4
\* calls of a host that connects, unloads and reloads
MaxSessionCalls == 3
\* the largest HTTP status code handed to the error mapper
MaxStatus == 599
\* calls of a host that creates, removes, renames and stats paths
MaxNameCalls == 5
\* calls of a host that sets properties
MaxPropertyCalls == 3
\* days sampled from the calendar, a fixed step apart, from 1 Jan 1970 on
MaxDateSamples == 150
\* certificates in the chain handed to the certificate check
MaxChain == 9
\* calls of a host that fills the caches, closes its handles and sets times
MaxCacheCalls == 6
\* characters of a Set-Cookie header over the small alphabet
MaxHeader == 3
\* answers handed to the cookie hook
MaxCookieCalls == 2

(* ------------------------------------------------------------------ *)
(* Characters, paths                                                   *)
(* ------------------------------------------------------------------ *)
SL == "/"
QUOTE == "\""

PD  == <<"/", "d">>
PE  == <<"/", "e">>
PDA == <<"/", "d", "/", "a">>
PEA == <<"/", "e", "/", "a">>
\* the resources the server can hold (the root always exists)
AllPaths == {PD, PE, PDA, PEA}

\* a NULL char pointer (no real string: its element is not one character)
NULL == <<"NULL">>

Min(a, b) == IF a < b THEN a ELSE b

\* the length left after the loop `while( len > 0 && uri[len-1] == '/' ) --len;`
RECURSIVE StripLen(_, _)
StripLen(s, len) ==
    IF len > 0 /\ s[len] = SL THEN StripLen(s, len - 1) ELSE len

StripSlashes(s) == SubSeq(s, 1, StripLen(s, Len(s)))

\* index of the last '/' of s, 0 when there is none
RECURSIVE LastSlash(_, _)
LastSlash(s, i) ==
    IF i = 0 THEN 0 ELSE IF s[i] = SL THEN i ELSE LastSlash(s, i - 1)

\* c_basename: the part after the last slash, trailing slashes dropped first
c_basename(path) ==
    LET p == StripSlashes(path)
        k == LastSlash(p, Len(p))
    IN  IF Len(path) = 0 THEN <<".">>
        ELSE IF Len(p) = 0 THEN <<SL>>
        ELSE SubSeq(p, k + 1, Len(p))

\* c_dirname: the part before the last slash, trailing slashes dropped
c_dirname(path) ==
    LET p == StripSlashes(path)
        k == LastSlash(p, Len(p))
        d == StripSlashes(SubSeq(p, 1, k))
    IN  IF Len(path) = 0 THEN <<".">>
        ELSE IF Len(p) = 0 THEN <<SL>>
        ELSE IF k = 0 THEN <<".">>
        ELSE IF Len(d) = 0 THEN <<SL>>
        ELSE d

\* ne_path_escape: percent-encodes what is not a path character
RECURSIVE ne_path_escape(_)
ne_path_escape(s) ==
    IF Len(s) = 0 THEN <<>>
    ELSE (IF Head(s) = " " THEN <<"%", "2", "0">>
          ELSE IF Head(s) = "%" THEN <<"%", "2", "5">>
          ELSE <<Head(s)>>) \o ne_path_escape(Tail(s))

\* ne_path_unescape: decodes the %xx triplets
RECURSIVE ne_path_unescape(_)
ne_path_unescape(s) ==
    IF Len(s) = 0 THEN <<>>
    ELSE IF Len(s) >= 3 /\ Head(s) = "%"
         THEN (IF SubSeq(s, 2, 3) = <<"2", "0">> THEN <<" ">> ELSE <<"%">>)
              \o ne_path_unescape(SubSeq(s, 4, Len(s)))
         ELSE <<Head(s)>> \o ne_path_unescape(Tail(s))

ne_path_has_trailing_slash(s) == Len(s) > 0 /\ s[Len(s)] = SL

\* ne_path_compare: equal, or equal but for one trailing slash
ne_path_compare(a, b) ==
    IF a = b THEN 0
    ELSE IF /\ ne_path_has_trailing_slash(a) # ne_path_has_trailing_slash(b)
            /\ \/ (ne_path_has_trailing_slash(a) /\ Len(a) = Len(b) + 1)
               \/ (ne_path_has_trailing_slash(b) /\ Len(b) = Len(a) + 1)
            /\ SubSeq(a, 1, Min(Len(a), Len(b))) = SubSeq(b, 1, Min(Len(a), Len(b)))
         THEN 0
         ELSE 1

\* c_streq: both non-NULL and equal
c_streq(a, b) == a # NULL /\ b # NULL /\ a = b

(* ------------------------------------------------------------------ *)
(* URIs handed in by the host                                          *)
(* ------------------------------------------------------------------ *)
\* a URI is its parse: parse = FALSE is a string c_parse_uri rejects
Uri(scheme, path) == [parse |-> TRUE, scheme |-> scheme, path |-> path]
BadUri == [parse |-> FALSE, scheme |-> "", path |-> <<>>]

\* c_parse_uri: rc and the path component
c_parse_uri(uri) ==
    IF uri.parse THEN [rc |-> 0, scheme |-> uri.scheme, path |-> uri.path]
    ELSE [rc |-> -1, scheme |-> "", path |-> NULL]

\* c_basename / c_dirname of the whole URI string: of its path, for the
\* paths of two components and more that the host uses here
UriBasename(uri) == c_basename(uri.path)
UriDirname(uri) == [uri EXCEPT !.path = c_dirname(uri.path)]

_cleanPath(uri) ==
    LET r == c_parse_uri(uri)
    IN  IF r.rc < 0 THEN NULL ELSE ne_path_escape(r.path)

(* ------------------------------------------------------------------ *)
(* Dates of the HTTP headers                                           *)
(* ------------------------------------------------------------------ *)
IsLeapYear(y) == y % 4 = 0 /\ (y % 100 # 0 \/ y % 400 = 0)
DaysInYear(y) == IF IsLeapYear(y) THEN 366 ELSE 365
DaysInMonth(y, m) ==
    IF m = 1 /\ IsLeapYear(y) THEN 29
    ELSE <<31, 28, 31, 30, 31, 30, 31, 31, 30, 31, 30, 31>>[m + 1]

\* the calendar day of the day number d (0 is 1 Jan 1970), as gmtime finds
\* it: the year, then the month (from 0), then the day of the month
RECURSIVE YearOfDay(_, _)
YearOfDay(d, y) ==
    IF d < DaysInYear(y) THEN [year |-> y, yday |-> d]
    ELSE YearOfDay(d - DaysInYear(y), y + 1)
RECURSIVE MonthOfDay(_, _, _)
MonthOfDay(y, yday, m) ==
    IF yday < DaysInMonth(y, m) THEN [mon |-> m, mday |-> yday + 1]
    ELSE MonthOfDay(y, yday - DaysInMonth(y, m), m + 1)

Digits == <<"0", "1", "2", "3", "4", "5", "6", "7", "8", "9">>
\* n printed with %02d and with %4d
TwoDigits(n) == <<Digits[((n \div 10) % 10) + 1], Digits[(n % 10) + 1]>>
FourDigits(n) == TwoDigits(n \div 100) \o TwoDigits(n % 100)

WeekDays ==
    <<<<"S", "u", "n">>, <<"M", "o", "n">>, <<"T", "u", "e">>, <<"W", "e", "d">>,
      <<"T", "h", "u">>, <<"F", "r", "i">>, <<"S", "a", "t">>>>
short_months ==
    <<<<"J", "a", "n">>, <<"F", "e", "b">>, <<"M", "a", "r">>, <<"A", "p", "r">>,
      <<"M", "a", "y">>, <<"J", "u", "n">>, <<"J", "u", "l">>, <<"A", "u", "g">>,
      <<"S", "e", "p">>, <<"O", "c", "t">>, <<"N", "o", "v">>, <<"D", "e", "c">>>>
\* the month names of a server that prints its dates in another locale
OtherMonths ==
    <<<<"J", "a", "n">>, <<"F", "e", "b">>, <<"M", "r", "z">>, <<"A", "p", "r">>,
      <<"M", "a", "i">>, <<"J", "u", "n">>, <<"J", "u", "l">>, <<"A", "u", "g">>,
      <<"S", "e", "p">>, <<"O", "k", "t">>, <<"N", "o", "v">>, <<"D", "e", "z">>>>

\* the header a server prints for the instant t (seconds since the epoch,
\* UTC) with the month names `months`: "Sun, 06 Nov 1994 08:49:37 GMT"
Rfc1123Of(day, c, sec, months) ==
    WeekDays[((day + 4) % 7) + 1] \o <<",", " ">> \o TwoDigits(c.mday) \o <<" ">>
    \o months[c.mon + 1] \o <<" ">> \o FourDigits(c.year) \o <<" ">>
    \o TwoDigits(sec \div 3600) \o <<":">> \o TwoDigits((sec \div 60) % 60)
    \o <<":">> \o TwoDigits(sec % 60) \o <<" ", "G", "M", "T">>
Rfc1123On(day, y, sec, months) ==
    Rfc1123Of(day, [year |-> y.year] @@ MonthOfDay(y.year, y.yday, 0), sec, months)
Rfc1123(t, months) ==
    Rfc1123On(t \div 86400, YearOfDay(t \div 86400, 1970), t % 86400, months)

\* RFC1123_FORMAT as sscanf reads it: conversions %<w>s and %<w>d, a blank
\* (any white space) and the literal characters
RFC1123_FORMAT ==
    <<[k |-> "s", w |-> 3, f |-> "wkday"], [k |-> "lit", c |-> ","], [k |-> "ws"],
      [k |-> "d", w |-> 2, f |-> "tm_mday"], [k |-> "ws"],
      [k |-> "s", w |-> 3, f |-> "mon"], [k |-> "ws"],
      [k |-> "d", w |-> 4, f |-> "tm_year"], [k |-> "ws"],
      [k |-> "d", w |-> 2, f |-> "tm_hour"], [k |-> "lit", c |-> ":"],
      [k |-> "d", w |-> 2, f |-> "tm_min"], [k |-> "lit", c |-> ":"],
      [k |-> "d", w |-> 2, f |-> "tm_sec"], [k |-> "ws"],
      [k |-> "lit", c |-> "G"], [k |-> "lit", c |-> "M"], [k |-> "lit", c |-> "T"]>>

\* the position after the white space at pos
RECURSIVE SkipSpace(_, _)
SkipSpace(s, pos) ==
    IF pos <= Len(s) /\ s[pos] = " " THEN SkipSpace(s, pos + 1) ELSE pos

\* the end of the run of at most w characters from pos that are digits
\* (digits = TRUE) or no white space (digits = FALSE)
RECURSIVE RunEnd(_, _, _, _)
RunEnd(s, pos, w, digits) ==
    IF w = 0 \/ pos > Len(s) THEN pos
    ELSE IF digits /\ \A i \in 1..10 : Digits[i] # s[pos] THEN pos
    ELSE IF ~digits /\ s[pos] = " " THEN pos
    ELSE RunEnd(s, pos + 1, w - 1, digits)

\* the value of a run of decimal digits
RECURSIVE DecimalValue(_)
DecimalValue(ds) ==
    IF Len(ds) = 0 THEN 0
    ELSE 10 * DecimalValue(SubSeq(ds, 1, Len(ds) - 1))
         + (CHOOSE v \in 0..9 : Digits[v + 1] = ds[Len(ds)])

\* one directive of the format applied at st.pos; st.n counts the
\* conversions stored, st.stop is set where the input stops matching
scan_conversion(st, s, d, from, to) ==
    IF to = from THEN [st EXCEPT !.stop = TRUE]
    ELSE [st EXCEPT ![d.f] = IF d.k = "d" THEN DecimalValue(SubSeq(s, from, to - 1))
                             ELSE SubSeq(s, from, to - 1),
                    !.n = @ + 1, !.pos = to]
scan_directive(st, s, d) ==
    IF d.k = "ws" THEN [st EXCEPT !.pos = SkipSpace(s, st.pos)]
    ELSE IF d.k = "lit"
    THEN IF st.pos <= Len(s) /\ s[st.pos] = d.c THEN [st EXCEPT !.pos = @ + 1]
         ELSE [st EXCEPT !.stop = TRUE]
    ELSE scan_conversion(st, s, d, SkipSpace(s, st.pos),
                         RunEnd(s, SkipSpace(s, st.pos), d.w, d.k = "d"))

RECURSIVE sscanf(_, _, _, _)
sscanf(st, s, fmt, i) ==
    IF i > Len(fmt) \/ st.stop THEN st
    ELSE sscanf(scan_directive(st, s, fmt[i]), s, fmt, i + 1)

\* gmt after memset, with wkday and mon not yet written
ZeroTm ==
    [wkday |-> NULL, mon |-> NULL, tm_mday |-> 0, tm_mon |-> 0, tm_year |-> 0,
     tm_hour |-> 0, tm_min |-> 0, tm_sec |-> 0, tm_isdst |-> 0,
     n |-> 0, pos |-> 1, stop |-> FALSE]

\* the loop over short_months: the index of mon, 12 when it has none
RECURSIVE MonthIndex(_, _)
MonthIndex(mon, n) ==
    IF n < 12 /\ mon # short_months[n + 1] THEN MonthIndex(mon, n + 1) ELSE n

\* the struct tm oc_httpdate_parse hands to timegm
httpdate_tm(st) ==
    [st EXCEPT !.tm_year = @ - 1900, !.tm_mon = MonthIndex(st.mon, 0),
               !.tm_isdst = -1]

\* the days from 1 Jan 1970 to the first day of the year 1900 + tm_year, and
\* on to the first day of its month mon (the two loops of timegm for _WIN32)
RECURSIVE DaysBeforeYear(_, _)
DaysBeforeYear(i, tm_year) ==
    IF i < tm_year THEN DaysInYear(i + 1900) + DaysBeforeYear(i + 1, tm_year) ELSE 0
RECURSIVE DaysBeforeMonth(_, _, _)
DaysBeforeMonth(i, tm_mon, tm_year) ==
    IF i < tm_mon
    THEN DaysInMonth(tm_year + 1900, i) + DaysBeforeMonth(i + 1, tm_mon, tm_year)
    ELSE 0

\* seconds since the epoch of the broken-down time taken as UTC
UtcSeconds(tm) ==
    (((DaysBeforeYear(70, tm.tm_year + tm.tm_mon \div 12)
       + DaysBeforeMonth(0, tm.tm_mon % 12, tm.tm_year + tm.tm_mon \div 12)
       + tm.tm_mday - 1) * 24 + tm.tm_hour) * 60 + tm.tm_min) * 60 + tm.tm_sec

\* mktime under the zone TZ names: tz is the zone's offset east of UTC in
\* seconds, 0 for the empty TZ
mktime(tm, tz) == UtcSeconds(tm) - tz

\* a timegm that leaves TZ as the host set it
timegm_local(tm, tz, build) == mktime(tm, tz)

\* timegm in the three builds: the C library's (HAVE_TIMEGM), the loops for
\* _WIN32, and mktime under an emptied TZ; tz is the host's TZ
timegm(tm, tz, build) ==
    IF build = "HAVE_TIMEGM" THEN UtcSeconds(tm)
    ELSE IF build = "_WIN32"
    THEN (((DaysBeforeYear(70, tm.tm_year)
            + DaysBeforeMonth(0, tm.tm_mon, tm.tm_year)
            + tm.tm_mday - 1) * 24 + tm.tm_hour) * 60 + tm.tm_min) * 60 + tm.tm_sec
    ELSE mktime(tm, 0)

\* the value is [tm, result]
oc_httpdate_parse(date, tz, build) ==
    [tm |-> httpdate_tm(sscanf(ZeroTm, date, RFC1123_FORMAT, 1)),
     result |-> timegm(httpdate_tm(sscanf(ZeroTm, date, RFC1123_FORMAT, 1)),
                       tz, build)]

(* ------------------------------------------------------------------ *)
(* The certificate check                                               *)
(* ------------------------------------------------------------------ *)
\* the size of the text verify_sslcert builds
LEN == 4096

\* the text `problem`: its length, and whether a NUL ends it inside the
\* array; over is set once strlen has run past the array's end
NoProblem == [len |-> 0, term |-> TRUE, over |-> FALSE]

\* addSSLWarning(ptr, warn, len) for a warn of warnlen characters: strncpy
\* writes no NUL when warn fills what remains
addSSLWarning(ptr, warnlen, len) ==
    IF ~ptr.term THEN [ptr EXCEPT !.over = TRUE]
    ELSE IF len - ptr.len <= 0 THEN ptr
    ELSE IF warnlen < len - ptr.len THEN [ptr EXCEPT !.len = @ + warnlen]
    ELSE [ptr EXCEPT !.len = len, !.term = FALSE]

\* the lengths of the warnings, by the failure each one reports
WarningLen ==
    [head |-> 45, NE_SSL_NOTYETVALID |-> 37, NE_SSL_EXPIRED |-> 32,
     NE_SSL_UNTRUSTED |-> 35, NE_SSL_IDMISMATCH |-> 95, NE_SSL_BADCHAIN |-> 76,
     NE_SSL_REVOKED |-> 69, fingerprint |-> 25, digest |-> 59, newline |-> 1,
     question |-> 91]
FailureBits ==
    <<"NE_SSL_NOTYETVALID", "NE_SSL_EXPIRED", "NE_SSL_UNTRUSTED",
      "NE_SSL_IDMISMATCH", "NE_SSL_BADCHAIN", "NE_SSL_REVOKED">>

\* the warnings of one certificate of the chain, in the order they are
\* added; digest tells whether ne_ssl_cert_digest succeeded
RECURSIVE FailureWarnings(_, _)
FailureWarnings(failures, i) ==
    IF i > Len(FailureBits) THEN <<>>
    ELSE (IF FailureBits[i] \in failures THEN <<WarningLen[FailureBits[i]]>>
          ELSE <<>>) \o FailureWarnings(failures, i + 1)
CertWarnings(failures, digest) ==
    <<WarningLen.head>> \o FailureWarnings(failures, 1)
    \o (IF digest THEN <<WarningLen.fingerprint, WarningLen.digest, WarningLen.newline>>
        ELSE <<>>)

\* (once strlen has run past the array every further call does)
RECURSIVE AddWarnings(_, _)
AddWarnings(ptr, warns) ==
    IF Len(warns) = 0 \/ ptr.over THEN ptr
    ELSE AddWarnings(addSSLWarning(ptr, Head(warns), LEN), Tail(warns))

\* the loop `while( cert )` over a chain of n certificates
RECURSIVE ChainWarnings(_, _, _, _)
ChainWarnings(ptr, failures, digest, n) ==
    IF n = 0 \/ ptr.over THEN ptr
    ELSE ChainWarnings(AddWarnings(ptr, CertWarnings(failures, digest)),
                       failures, digest, n - 1)

\* a check that takes every non-empty reply for a yes
verify_sslcert_any_reply(authcb, failures, digest, chain, reply) ==
    [ret |-> IF authcb /\ Len(reply) > 0 THEN 0 ELSE -1,
     invoked |-> authcb,
     problem |-> NoProblem]

\* authcb: _authcb is set; reply: what the callback writes into buf, which
\* is all zero before; the value is [ret, invoked, problem]
verify_sslcert(authcb, failures, digest, chain, reply) ==
    [ret |-> IF authcb /\ Len(reply) > 0 /\ (reply[1] = "y" \/ reply[1] = "Y")
             THEN 0 ELSE -1,
     invoked |-> authcb,
     problem |-> addSSLWarning(ChainWarnings(NoProblem, failures, digest, chain),
                               WarningLen.question, LEN)]

(* ------------------------------------------------------------------ *)
(* The session cookie                                                  *)
(* ------------------------------------------------------------------ *)
\* the character at offset i of the C string h; offset Len(h) holds the
\* terminating NUL
CharAt(h, i) == IF i < Len(h) THEN h[i + 1] ELSE "NUL"

\* the first offset from i on that holds one of `stops`, or the NUL
RECURSIVE ScanTo(_, _, _)
ScanTo(h, i, stops) ==
    IF i >= Len(h) \/ h[i + 1] \in stops THEN i ELSE ScanTo(h, i + 1, stops)

\* strncpy of the bytes from offset a up to offset b
CopyKey(h, a, b) == SubSeq(h, a + 1, b)

\* the inner loop of lines 589-592: where sc_end stops
sc_end(h, sc) == ScanTo(h, sc, {";", ","})
\* the loop of lines 605-608: the ',' after the key that ends at offset e
next_comma(h, e) == ScanTo(h, e, {","})

\* the loop of lines 583-622 from the scan position sc (an offset into h)
\* with the key found so far: the value is [key, over]; over says that sc
\* went past the terminating NUL, where strlen reads what is not the header
RECURSIVE cookie_scan(_, _, _)
cookie_scan(h, sc, key) ==
    IF sc > Len(h) THEN [key |-> key, over |-> TRUE]
    ELSE IF sc_end(h, sc) = Len(h) THEN [key |-> key, over |-> FALSE]
    ELSE IF CharAt(h, sc_end(h, sc)) = ";"
    THEN IF next_comma(h, sc_end(h, sc)) < Len(h)
         THEN cookie_scan(h, next_comma(h, sc_end(h, sc)) + 2,
                          CopyKey(h, sc, sc_end(h, sc)))
         ELSE [key |-> CopyKey(h, sc, sc_end(h, sc)), over |-> FALSE]
    ELSE IF CharAt(h, sc_end(h, sc) + 1) = " "
    THEN cookie_scan(h, sc_end(h, sc) + 2, key)
    ELSE [key |-> key, over |-> FALSE]

\* a hook that takes the cookie of every answer
post_request_hook_any_status(given, code, header) ==
    IF ~given \/ header = NULL THEN [key |-> NULL, over |-> FALSE]
    ELSE cookie_scan(header, 0, NULL)

\* post_request_hook on an answer of status `code` whose Set-Cookie header
\* is `header` (NULL for none); `given` says that req and status are not
\* NULL. The value is [key, over]: key is the local `key` at line 627
post_request_hook(given, code, header) ==
    IF ~given THEN [key |-> NULL, over |-> FALSE]
    ELSE IF ~(code \div 100 = 2 \/ code = 401) THEN [key |-> NULL, over |-> FALSE]
    ELSE IF header = NULL THEN [key |-> NULL, over |-> FALSE]
    ELSE cookie_scan(header, 0, NULL)

(* ------------------------------------------------------------------ *)
(* Error mapper                                                        *)
(* ------------------------------------------------------------------ *)
\* a mapper that takes every status of 200-207 for a success
set_errno_2xx_ok(err) ==
    IF err \in 200..207 \/ err = 304 THEN "0"
    ELSE IF err \in {401, 402, 407, 405} THEN "EPERM"
    ELSE IF err \in {301, 303, 404, 410} THEN "ENOENT"
    ELSE IF err \in {408, 504} THEN "EAGAIN"
    ELSE IF err = 423 THEN "EACCES"
    ELSE IF err \in {400, 403, 409, 411, 412, 414, 415, 424, 501} THEN "EINVAL"
    ELSE IF err = 507 THEN "ENOSPC"
    ELSE IF err = 503 THEN "ERRNO_SERVICE_UNAVAILABLE"
    ELSE IF err = 413 THEN "EFBIG"
    ELSE "EIO"

set_errno_from_http_errcode(err) ==
    IF err \in {200, 201, 202, 203, 204, 205, 207, 304} THEN "0"
    ELSE IF err \in {401, 402, 407, 405} THEN "EPERM"
    ELSE IF err \in {301, 303, 404, 410} THEN "ENOENT"
    ELSE IF err \in {408, 504} THEN "EAGAIN"
    ELSE IF err = 423 THEN "EACCES"
    ELSE IF err \in {400, 403, 409, 411, 412, 414, 415, 424, 501} THEN "EINVAL"
    ELSE IF err = 507 THEN "ENOSPC"
    ELSE IF err \in {206, 300, 302, 305, 306, 307, 406, 416, 417, 422,
                     500, 502, 505} THEN "EIO"
    ELSE IF err = 503 THEN "ERRNO_SERVICE_UNAVAILABLE"
    ELSE IF err = 413 THEN "EFBIG"
    ELSE "EIO"

\* the message neon's session holds (ne_get_error): its leading integer as
\* strtol reads it (num, -1 when the text starts with no digit) and its text
NeonMsg(num, txt) == [num |-> num, txt |-> txt]
NoNeonError == NeonMsg(-1, "Unknown error.")
HttpMsg(code) == NeonMsg(code, "http status")

(* ------------------------------------------------------------------ *)
(* The WebDAV server and the transport (the environment)               *)
(* ------------------------------------------------------------------ *)
Bytes == {0, 1}
Bodies == UNION {[1..n -> Bytes] : n \in 0..MaxBody}
\* server_time - now, as one PROPFIND samples it
Deltas == {0, 60}
\* the instants the server stamps on what exists at the start / is written
ServerTimes == <<1000, 2000>>
OldTime == ServerTimes[1]
NewTime == ServerTimes[2]
\* the mtime the host passes to utimes
HostTimes == {1500}

Absent == [kind |-> "absent", body |-> <<>>, mtime |-> 0]
Dir(m) == [kind |-> "dir", body |-> <<>>, mtime |-> m]
File(b, m) == [kind |-> "file", body |-> b, mtime |-> m]

\* the ETag header of a file, in its quoted wire form
RECURSIVE BodyChars(_)
BodyChars(b) ==
    IF Len(b) = 0 THEN <<>>
    ELSE <<IF Head(b) = 0 THEN "x" ELSE "y">> \o BodyChars(Tail(b))
WireETag(b) == <<QUOTE, "t">> \o BodyChars(b) \o <<QUOTE>>

\* gzip as the server applies it and neon's decompressing reader undoes it
Gzip(b) == <<31>> \o [i \in 1..Len(b) |-> b[Len(b) + 1 - i]]
Gunzip(w) == [i \in 1..(Len(w) - 1) |-> w[Len(w) + 1 - i]]

Exists(s, p) == p \in AllPaths /\ s[p].kind # "absent"
ParentExists(s, p) == c_dirname(p) = <<SL>> \/ Exists(s, c_dirname(p))
Under(p, q) == Len(q) > Len(p) /\ SubSeq(q, 1, Len(p) + 1) = p \o <<SL>>

\* the multistatus entry of one resource: the four ls_props
PropEntry(s, p) ==
    [href |-> ne_path_escape(IF s[p].kind = "dir" THEN p \o <<SL>> ELSE p),
     modtime |-> s[p].mtime,
     clength |-> IF s[p].kind = "dir" THEN -1 ELSE Len(s[p].body),
     collection |-> s[p].kind = "dir",
     etag |-> IF s[p].kind = "dir" THEN NULL ELSE WireETag(s[p].body)]

\* the children of p in the fixed order the server lists them
ChildOrder == <<PD, PE, PDA, PEA>>
RECURSIVE Children(_, _, _)
Children(s, p, i) ==
    IF i > Len(ChildOrder) THEN <<>>
    ELSE (IF Exists(s, ChildOrder[i]) /\ c_dirname(ChildOrder[i]) = p
          THEN <<PropEntry(s, ChildOrder[i])>> ELSE <<>>)
         \o Children(s, p, i + 1)

\* PROPFIND depth 1 on the request-URI t: the entries, target first
ServerPropfind(s, t) ==
    LET p == StripSlashes(ne_path_unescape(t))
    IN  IF ~Exists(s, p) THEN [code |-> 404, entries |-> <<>>]
        ELSE [code |-> 207,
              entries |-> <<PropEntry(s, p)>> \o
                          (IF s[p].kind = "dir" THEN Children(s, p, 1) ELSE <<>>)]

\* the namespace requests: status and the server afterwards
ServerMkcol(s, t) ==
    LET p == StripSlashes(ne_path_unescape(t))
    IN  IF p \notin AllPaths THEN [code |-> 403, srv |-> s]
        ELSE IF Exists(s, p) THEN [code |-> 405, srv |-> s]
        ELSE IF ~ParentExists(s, p) THEN [code |-> 409, srv |-> s]
        ELSE [code |-> 201, srv |-> [s EXCEPT ![p] = Dir(NewTime)]]

ServerDelete(s, t) ==
    LET p == StripSlashes(ne_path_unescape(t))
    IN  IF ~Exists(s, p) THEN [code |-> 404, srv |-> s]
        ELSE [code |-> 204,
              srv |-> [q \in AllPaths |->
                         IF q = p \/ Under(p, q) THEN Absent ELSE s[q]]]

\* MOVE with Overwrite: T; only files move here (the host renames files)
ServerMove(s, src, dst) ==
    LET a == StripSlashes(ne_path_unescape(src))
        b == StripSlashes(ne_path_unescape(dst))
    IN  IF ~Exists(s, a) THEN [code |-> 404, srv |-> s]
        ELSE IF b \notin AllPaths \/ a = b THEN [code |-> 403, srv |-> s]
        ELSE IF ~ParentExists(s, b) \/ s[a].kind = "dir" THEN [code |-> 409, srv |-> s]
        ELSE [code |-> IF Exists(s, b) THEN 204 ELSE 201,
              srv |-> [q \in AllPaths |->
                         IF q = a \/ Under(b, q) THEN Absent
                         ELSE IF q = b THEN s[a] ELSE s[q]]]

ServerProppatch(s, t, newmodtime) ==
    LET p == StripSlashes(ne_path_unescape(t))
    IN  IF ~Exists(s, p) THEN [code |-> 404, srv |-> s]
        ELSE [code |-> 207, srv |-> [s EXCEPT ![p].mtime = newmodtime]]

ServerPut(s, t, body) ==
    LET p == StripSlashes(ne_path_unescape(t))
    IN  IF p \notin AllPaths THEN [code |-> 403, srv |-> s]
        ELSE IF ~ParentExists(s, p) \/ s[p].kind = "dir" THEN [code |-> 409, srv |-> s]
        ELSE [code |-> IF Exists(s, p) THEN 204 ELSE 201,
              srv |-> [s EXCEPT ![p] = File(body, NewTime)]]

ServerGet(s, t) ==
    LET p == StripSlashes(ne_path_unescape(t))
    IN  IF ~Exists(s, p) THEN [code |-> 404, body |-> <<>>, etag |-> NULL]
        ELSE IF s[p].kind = "dir" THEN [code |-> 405, body |-> <<>>, etag |-> NULL]
        ELSE [code |-> 200, body |-> s[p].body, etag |-> WireETag(s[p].body)]

(* ------------------------------------------------------------------ *)
(* State                                                               *)
(* ------------------------------------------------------------------ *)
VARIABLES
    phase,           \* "loaded" after vio_module_init, "shutdown", "undefined"
    has_ssl,         \* ne_has_support(NE_FEATURE_SSL) of this build
    srv,             \* the server: path -> resource
    skew,            \* the server's clock minus the local clock
    connected,       \* _connected
    sess,            \* dav_session
    neon_error,      \* the message ne_get_error returns
    errno,           \* errno
    progresscb,      \* _progresscb is registered
    heap,            \* the listdir_context objects, by address
    propfind_cache,  \* propfind_cache: an address, 0 for NULL
    stat_cache,      \* _stat_cache
    id_cache,        \* _id_cache
    lastDir,         \* _lastDir
    dh,              \* the directory handles the host holds: slot -> address
    fh,              \* the transfer handle the host holds
    last,            \* what the last call returned and did
    rt,              \* how far a PUT, GET, stat round trip on one URI has got
    law,             \* how far a mkdir, rename or utimes sequence has got
    made,            \* the paths created through this module and not removed
    left,            \* the calls the host has yet to make
    faults, drifts

vars == <<phase, has_ssl, srv, skew, connected, sess, neon_error, errno,
          progresscb, heap, propfind_cache, stat_cache, id_cache, lastDir,
          dh, fh, last, rt, law, made, left, faults, drifts>>

\* addresses of listing contexts: one per handle, the cache, one in flight
CtxIds == 1..(MaxDirHandles + 2)
FreedCtx == [live |-> FALSE, target |-> NULL, list |-> <<>>, cur |-> 1,
             ref |-> 0, dirty |-> {}]
NoStatCache == [name |-> NULL, type |-> "regular", size |-> 0, mtime |-> 0,
                md5 |-> NULL, dirty |-> {}]
NoIdCache == [uri |-> [parse |-> FALSE, scheme |-> "NULL", path |-> NULL],
              id |-> NULL, dirty |-> {}]
NoHandle == [method |-> "none", clean_uri |-> BadUri, target |-> NULL,
             req |-> FALSE, sent |-> FALSE]

\* what a PROPFIND came back with, for the record of the call
NoAnswer == [ret |-> "", code |-> 0, content_type |-> ""]
Answer(p) == [ret |-> p.ret, code |-> p.code, content_type |-> p.content_type]
\* the listing a call asked fetch_resource_list for, and what became of it:
\* "hit", "propfind" or "failed"
NoListed == [target |-> NULL, how |-> "none"]
Listed(curi, how) == [target |-> curi, how |-> how]

\* the program's globals as one value, for the helpers that pass them on;
\* nreq, unconn, ub and events describe the running call: the requests it
\* issued, whether one was issued while _connected was 0, whether it used
\* an invalid pointer, and the progress events it emitted
Globals ==
    [srv |-> srv, connected |-> connected, sess |-> sess,
     neon_error |-> neon_error, errno |-> errno, heap |-> heap,
     propfind_cache |-> propfind_cache, stat_cache |-> stat_cache,
     id_cache |-> id_cache, lastDir |-> lastDir,
     nreq |-> 0, unconn |-> FALSE, ub |-> FALSE, events |-> <<>>,
     answer |-> NoAnswer, listed |-> NoListed, notifier |-> FALSE]

(* ------------------------------------------------------------------ *)
(* Listing contexts and caches                                         *)
(* ------------------------------------------------------------------ *)
\* free_fetchCtx: drop one reference, destroy at zero; a freed context
\* handed in is a use after free
\* a release that frees the context whoever else still holds it
free_fetchCtx_eager(G, id) ==
    IF id = 0 THEN G
    ELSE IF ~G.heap[id].live THEN [G EXCEPT !.ub = TRUE]
    ELSE [G EXCEPT !.heap[id] = FreedCtx]

free_fetchCtx(G, id) ==
    IF id = 0 THEN G
    ELSE IF ~G.heap[id].live THEN [G EXCEPT !.ub = TRUE]
    ELSE IF G.heap[id].ref - 1 > 0
         THEN [G EXCEPT !.heap[id].ref = @ - 1]
         ELSE [G EXCEPT !.heap[id] = FreedCtx]

\* a clean_caches that frees the cached listing and keeps the pointer
clean_caches_keeping_pointer(G) ==
    [free_fetchCtx(G, G.propfind_cache) EXCEPT
        !.stat_cache.name = NULL, !.stat_cache.md5 = NULL,
        !.stat_cache.dirty = {}, !.id_cache = NoIdCache]

clean_caches(G) ==
    LET G1 == free_fetchCtx(G, G.propfind_cache)
    IN  [G1 EXCEPT !.propfind_cache = 0,
                   !.stat_cache.name = NULL,
                   !.stat_cache.md5 = NULL,
                   !.stat_cache.dirty = {},
                   !.id_cache = NoIdCache]

set_error_message(G, msg) == [G EXCEPT !.sess.error_string = msg]

\* results: one multistatus entry to a struct resource
results(e) ==
    LET path == ne_path_unescape(e.href)
        len == IF e.etag = NULL THEN 0 ELSE Len(e.etag) - 2
    IN  [uri |-> path,
         name |-> c_basename(path),
         type |-> IF e.clength < 0 /\ e.collection
                  THEN "resr_collection" ELSE "resr_normal",
         modtime |-> e.modtime,
         size |-> IF e.clength < 0 THEN 0 ELSE e.clength,
         md5 |-> IF e.etag # NULL /\ len > 0
                 THEN SubSeq(e.etag, 2, len + 1) ELSE NULL]

\* the list after results() has prepended every entry
RECURSIVE ResultList(_)
ResultList(entries) ==
    IF Len(entries) = 0 THEN <<>>
    ELSE ResultList(Tail(entries)) \o <<results(Head(entries))>>

\* the address c_malloc returns: one no live context and no handle uses
NewCtxId(G) ==
    CHOOSE id \in CtxIds :
        /\ ~G.heap[id].live
        /\ \A k \in 1..MaxDirHandles : dh[k].ctx # id
        /\ \A j \in CtxIds : (j < id) =>
              (G.heap[j].live \/ \E k \in 1..MaxDirHandles : dh[k].ctx = j)

(* ------------------------------------------------------------------ *)
(* errno and the error string                                          *)
(* ------------------------------------------------------------------ *)
\* set_errno_from_session: http_result_code_from_session remembers neon's
\* message and reads its leading integer; EIO (5) and "no integer"
\* (ERRNO_ERROR_STRING) become errno as they are
set_errno_from_session(G) ==
    LET msg == G.neon_error
        G1 == set_error_message(G, msg)
    IN  [G1 EXCEPT !.errno =
            IF msg.num < 0 THEN "ERRNO_ERROR_STRING"
            ELSE IF msg.num = 5 THEN "EIO"
            ELSE set_errno_from_http_errcode(msg.num)]

\* an error mapper that gives the session up when the server cannot be
\* reached
set_errno_drops_session(G, neon_code) ==
    CASE neon_code \in {"NE_OK", "NE_ERROR"} -> set_errno_from_session(G)
      [] neon_code = "NE_AUTH"      -> [G EXCEPT !.errno = "ERRNO_USER_UNKNOWN_ON_SERVER"]
      [] neon_code = "NE_CONNECT"   -> [G EXCEPT !.errno = "ERRNO_CONNECT",
                                                 !.connected = FALSE]
      [] OTHER                      -> [G EXCEPT !.errno = "ERRNO_GENERAL_ERROR"]

set_errno_from_neon_errcode(G, neon_code) ==
    CASE neon_code \in {"NE_OK", "NE_ERROR"} -> set_errno_from_session(G)
      [] neon_code = "NE_LOOKUP"    -> [G EXCEPT !.errno = "ERRNO_LOOKUP_ERROR"]
      [] neon_code = "NE_AUTH"      -> [G EXCEPT !.errno = "ERRNO_USER_UNKNOWN_ON_SERVER"]
      [] neon_code = "NE_PROXYAUTH" -> [G EXCEPT !.errno = "ERRNO_PROXY_AUTH"]
      [] neon_code = "NE_CONNECT"   -> [G EXCEPT !.errno = "ERRNO_CONNECT"]
      [] neon_code = "NE_TIMEOUT"   -> [G EXCEPT !.errno = "ERRNO_TIMEOUT"]
      [] neon_code = "NE_FAILED"    -> [G EXCEPT !.errno = "ERRNO_PRECONDITION"]
      [] neon_code = "NE_RETRY"     -> [G EXCEPT !.errno = "ERRNO_RETRY"]
      [] neon_code = "NE_REDIRECT"  -> [G EXCEPT !.errno = "ERRNO_REDIRECT"]
      [] OTHER                      -> [G EXCEPT !.errno = "ERRNO_GENERAL_ERROR"]

(* ------------------------------------------------------------------ *)
(* Requests on the session                                             *)
(* ------------------------------------------------------------------ *)
FaultKinds == {"connect", "s507", "s401"}
Faults == {"none"} \cup FaultKinds

\* what a fault makes of a request: neon's result and the HTTP status
FaultCode(fault) ==
    CASE fault = "connect" -> 0 [] fault = "s507" -> 507 [] fault = "s401" -> 401

\* neon's message after a request that ended with `ret` and status `code`:
\* the status line of every answer that was read, else the transport's text
NeonErrorAfter(old, ret, code) ==
    CASE ret = "NE_OK"      -> HttpMsg(code)
      [] ret = "NE_ERROR"   -> HttpMsg(code)
      [] ret = "NE_AUTH"    -> NeonMsg(-1, "Could not authenticate to server")
      [] ret = "NE_CONNECT" -> NeonMsg(-1, "Could not connect to server")
      [] OTHER              -> NeonMsg(-1, "error")

\* the result of the requests that fail on any status outside 2xx
\* (ne_simple_request, ne_delete, ne_move, ne_proppatch, ne_propfind_named)
SimpleRet(code) ==
    IF code = 0 THEN "NE_CONNECT"
    ELSE IF code = 401 THEN "NE_AUTH"
    ELSE IF code \div 100 = 2 THEN "NE_OK"
    ELSE "NE_ERROR"

\* the result of ne_request_dispatch: NE_OK for every answer but a 401
DispatchRet(code) ==
    IF code = 0 THEN "NE_CONNECT"
    ELSE IF code = 401 THEN "NE_AUTH"
    ELSE "NE_OK"

\* a request is issued on dav_session.ctx with request-URI `path`: count it,
\* note whether _connected was 0, and whether the session or the path
\* pointer is invalid
IssueRequest(G, path) ==
    [G EXCEPT !.nreq = @ + 1,
              !.unconn = @ \/ ~G.connected,
              !.ub = @ \/ G.sess.ctx # "valid" \/ path = NULL]

(* ------------------------------------------------------------------ *)
(* fetch_resource_list                                                 *)
(* ------------------------------------------------------------------ *)
XmlType == "application/xml; charset=utf-8"

\* a server that labels its multistatus answers without the charset
OtherXmlType == "application/xml"

\* the PROPFIND as neon reports it: ret, the status, the Content-Type and
\* the entries handed to results()
Propfind(G, curi, fault) ==
    LET r == IF curi = NULL THEN [code |-> 400, entries |-> <<>>]
             ELSE ServerPropfind(G.srv, curi)
        code == IF fault \in {"none", "ctype"} THEN r.code ELSE FaultCode(fault)
    IN  [ret |-> SimpleRet(code), code |-> code,
         content_type |-> IF code # 207 THEN "text/html"
                          ELSE IF fault = "ctype" THEN OtherXmlType ELSE XmlType,
         entries |-> IF code = 207 THEN r.entries ELSE <<>>]

\* lines 1032-1065: the time delta sampled from the Date header
SampleTimeDelta(G, time_diff) ==
    [G EXCEPT !.sess.time_delta_sum = @ + time_diff,
              !.sess.time_delta_cnt = @ + 1,
              !.sess.prev_delta = G.sess.time_delta,
              !.sess.time_delta = time_diff]

\* _progresscb, when one is registered
Event(ev, uri, code) == [ev |-> ev, uri |-> uri, code |-> code]
\* a notification that keeps errors from the host
Emit_no_error(G, ev, uri, code) ==
    IF progresscb /\ ev # "ERROR"
    THEN [G EXCEPT !.events = Append(@, Event(ev, uri, code))] ELSE G
Emit(G, ev, uri, code) ==
    IF progresscb THEN [G EXCEPT !.events = Append(@, Event(ev, uri, code))] ELSE G

\* ne_set_notifier under `if (_progresscb)`: on installs ne_notify_status_cb
\* for the transfer, ~on takes it away
set_notifier(G, on) == IF progresscb THEN [G EXCEPT !.notifier = on] ELSE G

\* the request status of the PROPFIND p: the value is [G, ret]
propfind_status(G, uri, p) ==
    IF p.ret = "NE_OK"
    THEN IF p.code \div 100 # 2
         THEN [G |-> Emit(set_error_message(
                              [G EXCEPT !.errno = set_errno_from_http_errcode(p.code)],
                              NeonMsg(-1, "reason phrase")),
                          "ERROR", uri, p.code),
               ret |-> "NE_CONNECT"]
         ELSE [G |-> G, ret |-> "NE_OK"]
    ELSE [G |-> IF p.ret = "NE_ERROR" /\ p.code = 404
                THEN [G EXCEPT !.errno = "ENOENT"]
                ELSE set_errno_from_neon_errcode(G, p.ret),
          ret |-> p.ret]

\* the Content-Type of the answer, on s = [G, ret]
propfind_content_type(s, p) ==
    IF s.ret = "NE_OK" /\ p.content_type # XmlType
    THEN [G |-> set_error_message([s.G EXCEPT !.errno = "ERRNO_WRONG_CONTENT"],
                   NeonMsg(-1, "Server error: PROPFIND reply is not XML formatted!")),
          ret |-> "NE_CONNECT"]
    ELSE s

Abs(n) == IF n < 0 THEN -n ELSE n

\* a fetch_resource_list that fails a listing whose delta moved by more
\* than 5 seconds
propfind_server_time_strict(s) ==
    IF s.ret = "NE_OK" /\ s.G.sess.time_delta_cnt >= 1
                       /\ Abs(s.G.sess.time_delta - skew) > 5
    THEN [G |-> [SampleTimeDelta(s.G, skew) EXCEPT !.errno = "ERRNO_TIMEDELTA"],
          ret |-> "OC_TIMEDELTA_FAIL"]
    ELSE [G |-> IF s.ret = "NE_OK" THEN SampleTimeDelta(s.G, skew) ELSE s.G,
          ret |-> s.ret]

\* the server time of the Date header
propfind_server_time(s) ==
    [G |-> IF s.ret = "NE_OK" THEN SampleTimeDelta(s.G, skew) ELSE s.G,
     ret |-> s.ret]

\* a fetch_resource_list that caches the context of a failed request too
propfind_finish_caching(s, p, curi, id) ==
    [G |-> [free_fetchCtx(s.G, s.G.propfind_cache) EXCEPT
               !.heap[id] = [live |-> TRUE, target |-> curi,
                             list |-> ResultList(p.entries), cur |-> 1,
                             ref |-> 2, dirty |-> {}],
               !.propfind_cache = id],
     ctx |-> IF s.ret # "NE_OK" THEN 0 ELSE id, hit |-> FALSE]

\* the end of fetch_resource_list: a failed request frees the fresh context
\* (it never reaches the heap); a good one replaces the cached listing.
\* results() has prepended each entry and ret == NE_OK set currResource
propfind_finish(s, p, curi, id) ==
    IF s.ret # "NE_OK" THEN [G |-> s.G, ctx |-> 0, hit |-> FALSE]
    ELSE [G |-> [free_fetchCtx(s.G, s.G.propfind_cache) EXCEPT
                    !.heap[id] = [live |-> TRUE, target |-> curi,
                                  list |-> ResultList(p.entries), cur |-> 1,
                                  ref |-> 2, dirty |-> {}],
                    !.propfind_cache = id],
          ctx |-> id, hit |-> FALSE]

\* the PROPFIND on the request G1 has issued, and what is made of its answer
propfind_request(G1, uri, curi, id, p) ==
    IF G1.ub THEN [G |-> G1, ctx |-> 0, hit |-> FALSE]
    ELSE propfind_finish(
             propfind_server_time(
                 propfind_content_type(
                     propfind_status(
                         [G1 EXCEPT !.neon_error = NeonErrorAfter(@, p.ret, p.code),
                                    !.answer = Answer(p)],
                         uri, p),
                     p)),
             p, curi, id)

\* the outcome r of the request for curi, noted for the record of the call
NoteListed(r, curi) ==
    [r EXCEPT !.G.listed = Listed(curi, IF r.ctx = 0 THEN "failed" ELSE "propfind")]

\* a fetch_resource_list that takes any cached listing for the one asked for
fetch_listing_any_hit(G, uri, curi, fault) ==
    IF G.propfind_cache # 0
    THEN [G |-> [G EXCEPT !.heap[G.propfind_cache].ref = @ + 1,
                          !.listed = Listed(curi, "hit")],
          ctx |-> G.propfind_cache, hit |-> TRUE]
    ELSE NoteListed(propfind_request(IssueRequest(G, curi), uri, curi,
                                     NewCtxId(G), Propfind(G, curi, fault)),
                    curi)

\* the listing of curi, from the cache or by a request
fetch_listing(G, uri, curi, fault) ==
    IF G.propfind_cache # 0 /\ ~G.heap[G.propfind_cache].live
    THEN [G |-> [G EXCEPT !.ub = TRUE], ctx |-> 0, hit |-> FALSE]
    ELSE IF G.propfind_cache # 0 /\ c_streq(curi, G.heap[G.propfind_cache].target)
    THEN [G |-> [G EXCEPT !.heap[G.propfind_cache].ref = @ + 1,
                          !.listed = Listed(curi, "hit")],
          ctx |-> G.propfind_cache, hit |-> TRUE]
    ELSE NoteListed(propfind_request(IssueRequest(G, curi), uri, curi,
                                     NewCtxId(G), Propfind(G, curi, fault)),
                    curi)

\* the value is [G, ctx, hit]: the globals afterwards, the context returned
\* (0 for NULL), and whether the listing came from the cache
fetch_resource_list(G, uri, fault) == fetch_listing(G, uri, _cleanPath(uri), fault)

(* ------------------------------------------------------------------ *)
(* stat, readdir and the stat cache                                    *)
(* ------------------------------------------------------------------ *)
\* a csync_vio_file_stat_t the callee did not fill
NoStat == [filled |-> FALSE, name |-> NULL, type |-> "regular", size |-> 0,
           mtime |-> 0, mode |-> "", md5 |-> NULL]

_stat_perms(type) == IF type = "directory" THEN "drwxr-xr-x" ELSE "-rw-r--r--"

\* resourceToFileStat: the mtime is corrected by the current time delta
resourceToFileStat(res, time_delta) ==
    [filled |-> TRUE,
     name |-> res.name,
     type |-> IF res.type = "resr_collection" THEN "directory" ELSE "regular",
     size |-> res.size,
     mtime |-> res.modtime - time_delta,
     mode |-> "",
     md5 |-> res.md5]

\* fill_stat_cache; from is the context the entry was read from
fill_stat_cache(G, lfs, from) ==
    [G EXCEPT !.stat_cache =
        [name |-> lfs.name, type |-> lfs.type, size |-> lfs.size,
         mtime |-> lfs.mtime, md5 |-> lfs.md5, dirty |-> G.heap[from].dirty]]

\* the loop of owncloud_stat over the list: the first resource whose uri,
\* cut before its trailing slashes, is the decoded target; 0 for none
RECURSIVE FindResource(_, _, _)
FindResource(list, decodedUri, i) ==
    IF i > Len(list) THEN 0
    ELSE IF SubSeq(list[i].uri, 1, StripLen(list[i].uri, Len(list[i].uri)))
            = decodedUri
         THEN i
         ELSE FindResource(list, decodedUri, i + 1)

\* the part of owncloud_stat after fetch_resource_list returned f
stat_from_list(f, name) ==
    IF f.ctx = 0
    THEN [G |-> f.G, rc |-> -1, buf |-> [NoStat EXCEPT !.name = name],
          src |-> "none", dirty |-> {}]
    ELSE
    LET ctx == f.G.heap[f.ctx]
        i == FindResource(ctx.list, ne_path_unescape(ctx.target), 1)
        lfs == resourceToFileStat(ctx.list[i], f.G.sess.time_delta)
    IN  [G |-> free_fetchCtx(f.G, f.ctx), rc |-> 0,
         buf |-> IF i = 0 THEN [NoStat EXCEPT !.name = name]
                 ELSE [lfs EXCEPT !.name = name, !.mode = _stat_perms(lfs.type)],
         src |-> IF f.hit THEN "listing_cache" ELSE "propfind",
         dirty |-> ctx.dirty]

\* a stat that answers from the stat cache whatever name it holds
owncloud_stat_any_name(G, uri, fault) ==
    IF G.stat_cache.name # NULL
    THEN [G |-> [G EXCEPT !.errno = "0"], rc |-> 0,
          buf |-> [filled |-> TRUE, name |-> G.stat_cache.name,
                   type |-> G.stat_cache.type,
                   size |-> G.stat_cache.size, mtime |-> G.stat_cache.mtime,
                   mode |-> _stat_perms(G.stat_cache.type),
                   md5 |-> G.stat_cache.md5],
          src |-> "stat_cache", dirty |-> G.stat_cache.dirty]
    ELSE stat_from_list(fetch_resource_list([G EXCEPT !.errno = "0"], uri, fault),
                        UriBasename(uri))

\* the value is [G, rc, buf, src, dirty]: src tells where the answer came
\* from and dirty what has been changed since that entry was filled
owncloud_stat(G, uri, fault) ==
    IF G.stat_cache.name # NULL /\ UriBasename(uri) = G.stat_cache.name
    THEN [G |-> [G EXCEPT !.errno = "0"], rc |-> 0,
          buf |-> [filled |-> TRUE, name |-> G.stat_cache.name,
                   type |-> G.stat_cache.type,
                   size |-> G.stat_cache.size, mtime |-> G.stat_cache.mtime,
                   mode |-> _stat_perms(G.stat_cache.type),
                   md5 |-> G.stat_cache.md5],
          src |-> "stat_cache", dirty |-> G.stat_cache.dirty]
    ELSE stat_from_list(fetch_resource_list([G EXCEPT !.errno = "0"], uri, fault),
                        UriBasename(uri))

\* the loop of owncloud_readdir: the cursor afterwards and the index of
\* the entry to return (0: none is left)
RECURSIVE ReaddirScan(_, _)
ReaddirScan(ctx, cur) ==
    IF cur > Len(ctx.list) THEN [cur |-> cur, found |-> 0]
    ELSE IF ne_path_compare(ctx.target, ne_path_escape(ctx.list[cur].uri)) # 0
         THEN [cur |-> cur + 1, found |-> cur]
         ELSE ReaddirScan(ctx, cur + 1)

\* the value is [G, lfs]: lfs is NoStat for NULL
owncloud_readdir(G, id) ==
    IF ~G.heap[id].live THEN [G |-> [G EXCEPT !.ub = TRUE], lfs |-> NoStat]
    ELSE
    LET ctx == G.heap[id]
        r == ReaddirScan(ctx, ctx.cur)
        G1 == [G EXCEPT !.heap[id].cur = r.cur]
        lfs == resourceToFileStat(ctx.list[r.found], G.sess.time_delta)
    IN  IF r.found = 0 THEN [G |-> G1, lfs |-> NoStat]
        ELSE [G |-> fill_stat_cache(G1, lfs, id), lfs |-> lfs]

(* ------------------------------------------------------------------ *)
(* The session                                                         *)
(* ------------------------------------------------------------------ *)
\* dav_session after memset(&dav_session, 0, ...): no neon session yet
ZeroSession ==
    [ctx |-> "null", protocol |-> "", ssl_verify |-> FALSE,
     error_string |-> NeonMsg(-1, ""), read_timeout |-> 0,
     prev_delta |-> 0, time_delta |-> 0,
     time_delta_sum |-> 0, time_delta_cnt |-> 0,
     session_key |-> 0, proxy_type |-> 0, proxy_host |-> 0, proxy_user |-> 0,
     proxy_pwd |-> 0, proxy_port |-> 0, csync_ctx |-> 0]

\* a dav_connect that takes every scheme for owncloud
dav_connect_any_scheme(G, base_url) ==
    IF G.connected THEN [G |-> G, rc |-> 0]
    ELSE IF c_parse_uri(base_url).rc < 0 THEN [G |-> G, rc |-> -1]
    ELSE [G |-> [G EXCEPT !.sess.ctx = "valid",
                          !.sess.protocol = "http",
                          !.sess.ssl_verify = FALSE,
                          !.sess.read_timeout = IF @ = 0 THEN 30 ELSE @,
                          !.neon_error = NoNeonError,
                          !.connected = TRUE],
          rc |-> 0]

\* the value is [G, rc]
dav_connect(G, base_url) ==
    IF G.connected THEN [G |-> G, rc |-> 0]
    ELSE
    LET G1 == [G EXCEPT !.sess.time_delta_sum = 0,
                        !.sess.time_delta_cnt = 0,
                        !.sess.prev_delta = 0]
        u == c_parse_uri(base_url)
        useSSL == u.scheme = "ownclouds"
        \* ne_session_create and the read timeout
        G2 == [G1 EXCEPT !.sess.ctx = "valid",
                         !.sess.protocol = IF useSSL THEN "https" ELSE "http",
                         !.sess.ssl_verify = FALSE,
                         !.sess.read_timeout = IF @ = 0 THEN 30 ELSE @,
                         !.neon_error = NoNeonError]
    IN  IF u.rc < 0 THEN [G |-> G1, rc |-> -1]
        ELSE IF u.scheme \notin {"owncloud", "ownclouds"} THEN [G |-> G1, rc |-> -1]
        ELSE IF useSSL /\ ~has_ssl THEN [G |-> G2, rc |-> -1]
        ELSE [G |-> [G2 EXCEPT !.sess.ssl_verify = useSSL, !.connected = TRUE],
              rc |-> 0]

(* ------------------------------------------------------------------ *)
(* Namespace operations                                                *)
(* ------------------------------------------------------------------ *)
\* a request of the kind that fails on a status outside 2xx, on the server
\* answer r = [code, srv]: the value is [G, ret, code]
SimpleRequest(G, path, r, fault) ==
    LET G1 == IssueRequest(G, path)
        code == IF fault = "none" THEN r.code ELSE FaultCode(fault)
        ret == SimpleRet(code)
    IN  [G |-> [G1 EXCEPT !.neon_error = NeonErrorAfter(@, ret, code),
                          !.srv = IF fault = "none" /\ ~G1.ub THEN r.srv ELSE @],
         ret |-> ret, code |-> code]

\* status_read is what ne_get_status(req)->code yields after
\* ne_simple_request has destroyed req: the status, or whatever else the
\* freed memory holds by then (0 stands for that)
owncloud_mkdir(G, uri, fault, status_read) ==
    LET path == _cleanPath(uri)
        G0 == IF path = NULL THEN [G EXCEPT !.errno = "EINVAL"] ELSE G
        c == dav_connect(G0, uri)
        G1 == IF c.rc < 0 THEN [c.G EXCEPT !.errno = "EINVAL"] ELSE c.G
        \* the uri path is required to have a trailing slash
        tpath == IF path = NULL THEN NULL
                 ELSE IF path[Len(path)] # SL THEN path \o <<SL>> ELSE path
        q == SimpleRequest(G1, tpath, ServerMkcol(G1.srv, tpath), fault)
        seen == IF status_read THEN q.code ELSE 0
        G2 == IF seen = 405 THEN [q.G EXCEPT !.errno = "EEXIST"]
              ELSE set_errno_from_neon_errcode(q.G, q.ret)
    IN  IF c.rc < 0 THEN [G |-> G1, rc |-> -1]
        ELSE IF path = NULL THEN [G |-> [G1 EXCEPT !.ub = TRUE], rc |-> -1]
        ELSE [G |-> G2, rc |-> IF q.ret # "NE_OK" THEN -1 ELSE 0]

owncloud_rmdir(G, uri, fault) ==
    LET curi == _cleanPath(uri)
        c == dav_connect(G, uri)
        G1 == IF c.rc < 0 THEN [c.G EXCEPT !.errno = "EINVAL"] ELSE c.G
        q == SimpleRequest(G1, curi, ServerDelete(G1.srv, curi), fault)
    IN  IF c.rc < 0 THEN [G |-> G1, rc |-> -1]
        ELSE [G |-> set_errno_from_neon_errcode(q.G, q.ret),
              rc |-> IF q.ret # "NE_OK" THEN -1 ELSE 0]

owncloud_rename(G, olduri, newuri, fault) ==
    LET c == dav_connect(G, olduri)
        G1 == IF c.rc < 0 THEN [c.G EXCEPT !.errno = "EINVAL"] ELSE c.G
        src == _cleanPath(olduri)
        target == _cleanPath(newuri)
        q == SimpleRequest(IF target = NULL THEN [G1 EXCEPT !.ub = TRUE] ELSE G1,
                           src, ServerMove(G1.srv, src, target), fault)
    IN  IF c.rc < 0 THEN [G |-> G1, rc |-> -1]
        ELSE [G |-> set_errno_from_neon_errcode(q.G, q.ret),
              rc |-> IF q.ret # "NE_OK" THEN -1 ELSE 0]

\* an unlink that reports what became of its request, as rmdir does
owncloud_unlink_reporting(G, uri, fault) == owncloud_rmdir(G, uri, fault)

owncloud_unlink(G, uri, fault) ==
    LET path == _cleanPath(uri)
        G0 == IF path = NULL THEN [G EXCEPT !.errno = "EINVAL"] ELSE G
        c == dav_connect(G0, uri)
        G1 == IF c.rc < 0 THEN [c.G EXCEPT !.errno = "EINVAL"] ELSE c.G
        q == SimpleRequest(G1, path, ServerDelete(G1.srv, path), fault)
    IN  IF path = NULL THEN [G |-> G0, rc |-> 0]
        ELSE IF c.rc # 0 THEN [G |-> G1, rc |-> 0]
        ELSE [G |-> set_errno_from_neon_errcode(q.G, q.ret), rc |-> 0]

\* a utimes that cleans the caches whatever became of the PROPPATCH
owncloud_utimes_cleaning(G, uri, modtime, fault) ==
    [G |-> clean_caches(
              SimpleRequest(G, _cleanPath(uri),
                            ServerProppatch(G.srv, _cleanPath(uri),
                                            modtime + G.sess.time_delta),
                            fault).G),
     rc |-> 0, val |-> modtime + G.sess.time_delta, code |-> 207]

\* modtime is times[1].tv_sec; the value is [G, rc, val, code]: val is the
\* value sent, code the status of the answer (0 for none)
owncloud_utimes(G, uri, modtime, fault) ==
    LET curi == _cleanPath(uri)
        newmodtime == modtime + G.sess.time_delta
        q == SimpleRequest(G, curi, ServerProppatch(G.srv, curi, newmodtime), fault)
    IN  IF q.ret # "NE_OK"
        THEN [G |-> set_errno_from_neon_errcode(q.G, q.ret), rc |-> -1,
              val |-> newmodtime, code |-> q.code]
        ELSE [G |-> clean_caches(q.G), rc |-> 0,
              val |-> newmodtime, code |-> q.code]

(* ------------------------------------------------------------------ *)
(* Transfers                                                           *)
(* ------------------------------------------------------------------ *)
NoDir == [parse |-> FALSE, scheme |-> "NULL", path |-> NULL]

\* ne_request_create on dav_session.ctx
request_created(G, handle) ==
    [G |-> [G EXCEPT !.ub = @ \/ G.sess.ctx # "valid"], handle |-> handle]

\* the end of owncloud_open for a PUT whose directory had to be checked:
\* st is what owncloud_stat returned for it
open_after_stat(st, dir, handle) ==
    IF st.rc = 0 THEN request_created([st.G EXCEPT !.lastDir = dir], handle)
    ELSE [G |-> [st.G EXCEPT !.errno = "ENOENT"], handle |-> NoHandle]

\* owncloud_open after dav_connect
open_connected(G, durl, put, fault, handle) ==
    IF ~put THEN request_created(G, handle)
    ELSE IF UriDirname(durl) = G.lastDir THEN request_created(G, handle)
    ELSE open_after_stat(owncloud_stat(G, UriDirname(durl), fault),
                         UriDirname(durl), handle)

\* put is flags & (O_WRONLY | O_RDWR | O_CREAT); the value is [G, handle]
owncloud_open(G, durl, put, fault) ==
    IF _cleanPath(durl) = NULL
    THEN [G |-> [G EXCEPT !.errno = "EACCES"], handle |-> NoHandle]
    ELSE open_connected(dav_connect(G, durl).G, durl, put, fault,
                        [method |-> IF put THEN "PUT" ELSE "GET",
                         clean_uri |-> durl, target |-> _cleanPath(durl),
                         req |-> TRUE, sent |-> FALSE])


\* a post-headers hook that cuts the quotes before it stores the ETag
install_content_reader_unquoting(G, write_ctx, content_encoding, etag) ==
    [G |-> IF etag # NULL /\ Len(etag) > 2
           THEN [G EXCEPT !.id_cache =
                    [uri |-> write_ctx.clean_uri,
                     id |-> SubSeq(etag, 2, Len(etag) - 1), dirty |-> {}]]
           ELSE G,
     decompress |-> content_encoding = "gzip"]

\* install_content_reader, the post-headers hook of a GET: the reader for
\* the body and the ETag header into the id cache; the value is [G, gzip]
install_content_reader(G, write_ctx, content_encoding, etag) ==
    [G |-> IF etag # NULL /\ Len(etag) > 0
           THEN [G EXCEPT !.id_cache =
                    [uri |-> write_ctx.clean_uri, id |-> etag, dirty |-> {}]]
           ELSE G,
     decompress |-> content_encoding = "gzip"]

\* a reader that never inflates
content_reader_plain(wire, decompress) == wire

\* content_reader on the body blocks neon hands over: the bytes written to
\* the target descriptor
content_reader(wire, decompress) == IF decompress THEN Gunzip(wire) ELSE wire

ErrorETag == <<QUOTE, "e", QUOTE>>
\* the ETag headers of an error answer: none, or a quoted tag
ErrorETags == {NULL, ErrorETag}
\* ETag headers no well-behaved server sends: one double quote, an empty
\* quoted tag, a tag without quotes
OddETags == {<<QUOTE>>, <<QUOTE, QUOTE>>, <<"e">>}

\* the PUT branch; body is the content of the source descriptor;
\* the value is [G, rc, wrote, code]: code is the status the server answered
SendfilePut(G, write_ctx, body, fault) ==
    LET G1 == Emit(set_notifier(G, TRUE), "START_UPLOAD", write_ctx.clean_uri, 0)
        G2 == IssueRequest(G1, write_ctx.target)
        r == ServerPut(G2.srv, write_ctx.target, body)
        code == IF fault = "none" THEN r.code ELSE FaultCode(fault)
        neon_stat == DispatchRet(code)
        G3 == set_errno_from_neon_errcode(
                 [G2 EXCEPT !.neon_error = NeonErrorAfter(@, neon_stat, code),
                            !.srv = IF fault = "none" /\ ~G2.ub THEN r.srv ELSE @],
                 neon_stat)
        failed == code \div 100 # 2
        G4 == IF failed THEN [G3 EXCEPT !.errno = set_errno_from_http_errcode(code)]
              ELSE G3
        rc == IF failed THEN 1 ELSE 0
        error_code == IF failed THEN code ELSE 0
    IN  [G |-> Emit(set_notifier(G4, FALSE),
                    IF rc # 0 THEN "ERROR" ELSE "FINISHED_UPLOAD",
                    write_ctx.clean_uri, error_code),
         rc |-> rc, wrote |-> <<>>, code |-> code]

\* the GET branch; gzip and err_etag are the server's choices: to compress
\* the body, and the ETag header of an error answer (NULL: none)
SendfileGet(G, write_ctx, fault, gzip, err_etag) ==
    LET G1 == Emit(set_notifier(G, TRUE), "START_DOWNLOAD",
                   write_ctx.clean_uri, 0)
        G2 == IssueRequest(G1, write_ctx.target)
        r == ServerGet(G2.srv, write_ctx.target)
        code == IF fault = "none" THEN r.code ELSE FaultCode(fault)
        neon_stat == DispatchRet(code)
        ok == code \div 100 = 2
        etag == IF ok THEN r.etag ELSE err_etag
        wire == IF gzip THEN Gzip(r.body) ELSE r.body
        \* the hook runs once the headers of an answer are in
        h == IF code = 0 THEN [G |-> G2, decompress |-> FALSE]
             ELSE install_content_reader(G2, write_ctx,
                                         IF ok /\ gzip THEN "gzip" ELSE "", etag)
        G3 == [h.G EXCEPT !.neon_error = NeonErrorAfter(@, neon_stat, code)]
        G4 == IF neon_stat # "NE_OK" THEN set_errno_from_neon_errcode(G3, neon_stat)
              ELSE IF ~ok THEN [G3 EXCEPT !.errno = set_errno_from_http_errcode(code)]
              ELSE G3
        rc == IF neon_stat # "NE_OK" THEN -1 ELSE IF ~ok THEN 1 ELSE 0
        error_code == IF neon_stat = "NE_OK" /\ ~ok THEN code ELSE 0
    IN  [G |-> Emit(set_notifier(G4, FALSE),
                    IF rc # 0 THEN "ERROR" ELSE "FINISHED_DOWNLOAD",
                    write_ctx.clean_uri, error_code),
         rc |-> rc,
         \* ne_accept_2xx: the reader gets the body of a 2xx answer only
         wrote |-> IF ok THEN content_reader(wire, h.decompress) ELSE <<>>,
         code |-> code]

owncloud_sendfile(G, write_ctx, body, fault, gzip, err_etag) ==
    IF write_ctx.method = "PUT" THEN SendfilePut(G, write_ctx, body, fault)
    ELSE IF write_ctx.method = "GET"
    THEN SendfileGet(G, write_ctx, fault, gzip, err_etag)
    ELSE [G |-> G, rc |-> -1, wrote |-> <<>>, code |-> 0]

\* a close that leaves the caches as they are
owncloud_close_keeping(G, writeCtx) ==
    IF writeCtx = NoHandle THEN [G |-> [G EXCEPT !.errno = "EBADF"], rc |-> -1]
    ELSE [G |-> G, rc |-> 0]

\* close of a handle open() returned, or of NULL (NoHandle); the value is
\* [G, rc]
owncloud_close(G, writeCtx) ==
    IF writeCtx = NoHandle THEN [G |-> [G EXCEPT !.errno = "EBADF"], rc |-> -1]
    ELSE IF writeCtx.method = "PUT" THEN [G |-> clean_caches(G), rc |-> 0]
    ELSE [G |-> G, rc |-> 0]

\* an end of owncloud_file_id that hands the header back as it is
file_id_as_stored(G, header, src, dirty) ==
    [G |-> G, id |-> header, src |-> src, dirty |-> dirty]

\* the end of owncloud_file_id: the header without its quotes
file_id_of(G, header, src, dirty) ==
    LET quoted == header[1] = QUOTE /\ header[Len(header)] = QUOTE
    IN  [G |-> IF header # NULL /\ quoted /\ Len(header) - 2 < 0
               THEN [G EXCEPT !.ub = TRUE] ELSE G,
         id |-> IF header = NULL THEN NULL
                ELSE IF quoted THEN SubSeq(header, 2, Len(header) - 1)
                ELSE header,
         src |-> src, dirty |-> dirty]

\* the part of owncloud_file_id after owncloud_stat returned st
file_id_from_stat(st) ==
    file_id_of(st.G, IF st.rc = 0 THEN st.buf.md5 ELSE NULL, st.src, st.dirty)

\* the value is [G, id, src, dirty]: id is NULL when nothing is found
owncloud_file_id(G, path, fault) ==
    IF G.id_cache.uri # NoDir /\ path = G.id_cache.uri
    THEN file_id_of(G, G.id_cache.id, "id_cache", G.id_cache.dirty)
    ELSE file_id_from_stat(owncloud_stat(G, path, fault))

(* ------------------------------------------------------------------ *)
(* Properties of the session                                           *)
(* ------------------------------------------------------------------ *)
\* the keys READ_STRING_PROPERTY stores as a copy of the string
StringProperties ==
    {"session_key", "proxy_type", "proxy_host", "proxy_user", "proxy_pwd"}

\* a set_property that takes any key
owncloud_set_property_lenient(G, cb, key, data) ==
    [G |-> IF key \in DOMAIN G.sess THEN [G EXCEPT !.sess[key] = data] ELSE G,
     cb |-> cb, rc |-> 0]

\* cb is _progresscb; the value is [G, cb, rc]
owncloud_set_property(G, cb, key, data) ==
    IF key \in StringProperties
    THEN [G |-> [G EXCEPT !.sess[key] = data], cb |-> cb, rc |-> 0]
    ELSE IF key = "proxy_port"
    THEN [G |-> [G EXCEPT !.sess.proxy_port = data], cb |-> cb, rc |-> 0]
    ELSE IF key = "progress_callback"
    THEN [G |-> G, cb |-> data # 0, rc |-> 0]
    ELSE IF key = "read_timeout"
    THEN [G |-> [G EXCEPT !.sess.read_timeout = data], cb |-> cb, rc |-> 0]
    ELSE IF key = "csync_context"
    THEN [G |-> [G EXCEPT !.sess.csync_ctx = data], cb |-> cb, rc |-> 0]
    ELSE [G |-> G, cb |-> cb, rc |-> -1]

(* ------------------------------------------------------------------ *)
(* The host: one action per VIO call                                   *)
(* ------------------------------------------------------------------ *)
GoodUris == {Uri("owncloud", p) : p \in AllPaths}
DirUris == {Uri("owncloud", PD), Uri("owncloud", PE)}
FileUris == {Uri("owncloud", PDA), Uri("owncloud", PEA)}
\* a directory named with its trailing slash
SlashUris == {Uri("owncloud", PD \o <<SL>>)}
\* URIs on which dav_connect fails: unparseable, a foreign scheme, and
\* (on a build without SSL) ownclouds
OddUris == {BadUri, Uri("http", PD), Uri("ownclouds", PD)}

NoDh == [ctx |-> 0, uri |-> BadUri, yielded |-> <<>>, done |-> FALSE, expect |-> {}]

FaultsNow == IF faults < MaxFaults THEN Faults ELSE {"none"}
\* the faults of a listing: also a multistatus of another Content-Type
ListingFaultsNow == IF faults < MaxFaults THEN Faults \cup {"ctype"} ELSE {"none"}

\* what a call hands back to the host, and what it did
Result(op, uri, rc) ==
    [op |-> op, uri |-> uri, rc |-> rc, buf |-> NoStat, id |-> NULL,
     src |-> "none", dirty |-> {}, body |-> <<>>, wrote |-> <<>>, code |-> 0,
     nreq |-> 0, unconn |-> FALSE, events |-> <<>>, to |-> BadUri, time |-> 0,
     key |-> "", data |-> 0,
     date |-> <<>>, instant |-> 0, tz |-> 0, build |-> "", tm |-> ZeroTm,
     result |-> 0, val |-> 0, answer |-> NoAnswer, listed |-> NoListed,
     given |-> FALSE, header |-> NULL, cookie |-> NULL, over |-> FALSE,
     notifier |-> FALSE,
     authcb |-> FALSE, failures |-> {}, chain |-> 0, reply |-> <<>>,
     invoked |-> FALSE, problem |-> NoProblem]

\* the mark a PUT close leaves beside the path it changed
PutClosed == <<"PUT closed">>

\* every cache entry and listing context that exists now was filled before
\* the paths P were changed
MarkDirty(G, P) ==
    [G EXCEPT !.heap = [i \in CtxIds |->
                           IF @[i].live THEN [@[i] EXCEPT !.dirty = @ \cup P]
                           ELSE @[i]],
              !.stat_cache.dirty = IF G.stat_cache.name # NULL THEN @ \cup P ELSE @,
              !.id_cache.dirty = IF G.id_cache.uri # NoDir THEN @ \cup P ELSE @]

\* the round trip of one URI: open for writing (1), sendfile returned 0 (2),
\* close (3), open for reading (4), sendfile returned 0 (5), stat (6); any
\* other call starts over
NoTrip == [step |-> 0, uri |-> BadUri, body |-> <<>>]
Track(t, res) ==
    LET next == t.step + 1
        same == res.uri = t.uri
    IN  IF res.op = "open_put" /\ res.rc = 0
        THEN [step |-> 1, uri |-> res.uri, body |-> <<>>]
        ELSE IF next = 2 /\ res.op = "sendfile_put" /\ res.rc = 0 /\ same
        THEN [t EXCEPT !.step = 2, !.body = res.body]
        ELSE IF next = 3 /\ res.op = "close_put" /\ res.rc = 0 /\ same
        THEN [t EXCEPT !.step = 3]
        ELSE IF next = 4 /\ res.op = "open_get" /\ res.rc = 0 /\ same
        THEN [t EXCEPT !.step = 4]
        ELSE IF next = 5 /\ res.op = "sendfile_get" /\ res.rc = 0 /\ same
        THEN [t EXCEPT !.step = 5]
        ELSE IF next = 6 /\ res.op = "stat" /\ res.rc = 0 /\ same
        THEN [t EXCEPT !.step = 6]
        ELSE NoTrip

\* the calls of a sequence on one path: mkdir (1), rmdir returned 0 (2),
\* stat (3); rename returned 0 (1), stat of the old path (2), stat of the
\* new path (3); utimes returned 0 (1), stat (2); any other call starts over
NoLaw == [kind |-> "none", step |-> 0, uri |-> BadUri, to |-> BadUri, time |-> 0]
TrackLaw(t, res) ==
    IF res.op = "mkdir"
    THEN [NoLaw EXCEPT !.kind = "mkdir", !.step = 1, !.uri = res.uri]
    ELSE IF res.op = "rmdir" /\ res.rc = 0 /\ t.kind = "mkdir" /\ t.step = 1
            /\ res.uri = t.uri
    THEN [t EXCEPT !.step = 2]
    ELSE IF res.op = "stat" /\ t.kind = "mkdir" /\ t.step = 2 /\ res.uri = t.uri
    THEN [t EXCEPT !.step = 3]
    ELSE IF res.op = "rename" /\ res.rc = 0
    THEN [NoLaw EXCEPT !.kind = "rename", !.step = 1, !.uri = res.uri,
                       !.to = res.to]
    ELSE IF res.op = "stat" /\ t.kind = "rename" /\ t.step = 1 /\ res.uri = t.uri
    THEN [t EXCEPT !.step = 2]
    ELSE IF res.op = "stat" /\ t.kind = "rename" /\ t.step \in {1, 2}
            /\ res.uri = t.to
    THEN [t EXCEPT !.step = 3]
    ELSE IF res.op = "utimes" /\ res.rc = 0
    THEN [NoLaw EXCEPT !.kind = "utimes", !.step = 1, !.uri = res.uri,
                       !.time = res.time]
    ELSE IF res.op = "stat" /\ t.kind = "utimes" /\ t.step = 1 /\ res.uri = t.uri
    THEN [t EXCEPT !.step = 2]
    ELSE NoLaw

\* the paths this module created, after the call that returned res
Made(m, t, res) ==
    IF res.op = "mkdir" /\ res.rc = 0 THEN m \cup {StripSlashes(res.uri.path)}
    ELSE IF res.op = "close_put" /\ res.rc = 0 /\ t.step = 3 THEN m \cup {t.uri.path}
    ELSE IF res.op \in {"rmdir", "unlink", "rename"} /\ res.uri.parse
    THEN {q \in m : q # StripSlashes(res.uri.path)
                    /\ ~Under(StripSlashes(res.uri.path), q)}
    ELSE m

\* the call returns: the globals become G, the host sees res
Return(G, res, fault) ==
    /\ rt' = Track(rt, res)
    /\ law' = TrackLaw(law, res)
    /\ made' = Made(made, Track(rt, res), res)
    /\ phase' = IF G.ub THEN "undefined"
                ELSE IF res.op = "shutdown" THEN "shutdown" ELSE "loaded"
    /\ srv' = G.srv
    /\ connected' = G.connected
    /\ sess' = G.sess
    /\ neon_error' = G.neon_error
    /\ errno' = G.errno
    /\ heap' = G.heap
    /\ propfind_cache' = G.propfind_cache
    /\ stat_cache' = G.stat_cache
    /\ id_cache' = G.id_cache
    /\ lastDir' = G.lastDir
    /\ last' = [res EXCEPT !.nreq = G.nreq, !.unconn = G.unconn,
                           !.events = G.events, !.answer = G.answer,
                           !.listed = G.listed, !.notifier = G.notifier]
    /\ left' = left - 1
    /\ faults' = IF fault # "none" /\ G.nreq > 0 THEN faults + 1 ELSE faults
    /\ UNCHANGED <<has_ssl, skew, drifts>>

CanCall == phase = "loaded" /\ left > 0

Stat(uri, fault) ==
    /\ CanCall
    /\ \E r \in {owncloud_stat(Globals, uri, fault)} :
           Return(r.G, [Result("stat", uri, r.rc) EXCEPT
                           !.buf = r.buf, !.src = r.src, !.dirty = r.dirty], fault)
    /\ UNCHANGED <<progresscb, dh, fh>>

FileId(uri, fault) ==
    /\ CanCall
    /\ \E r \in {owncloud_file_id(Globals, uri, fault)} :
           Return(r.G, [Result("file_id", uri, IF r.id = NULL THEN -1 ELSE 0) EXCEPT
                           !.id = r.id, !.src = r.src, !.dirty = r.dirty], fault)
    /\ UNCHANGED <<progresscb, dh, fh>>

\* owncloud_opendir; the host keeps the handle in a free slot k
Opendir(uri, k, fault) ==
    /\ CanCall
    /\ dh[k].ctx = 0
    /\ \A j \in 1..(k - 1) : dh[j].ctx # 0
    /\ \E f \in {fetch_resource_list(dav_connect(Globals, uri).G, uri, fault)} :
           /\ Return(IF f.ctx = 0 THEN f.G ELSE [f.G EXCEPT !.heap[f.ctx].cur = 1],
                     [Result("opendir", uri, IF f.ctx = 0 THEN -1 ELSE 0) EXCEPT
                             !.src = IF f.ctx = 0 THEN "none"
                                     ELSE IF f.hit THEN "listing_cache" ELSE "propfind",
                             !.dirty = IF f.hit THEN heap[f.ctx].dirty ELSE {}],
                     fault)
           /\ dh' = IF f.ctx = 0 THEN dh
                    ELSE [dh EXCEPT ![k] =
                            [ctx |-> f.ctx, uri |-> uri, yielded |-> <<>>,
                             done |-> FALSE,
                             expect |-> {q \in made :
                                           c_dirname(q) = StripSlashes(uri.path)}]]
    /\ UNCHANGED <<progresscb, fh>>

Readdir(k) ==
    /\ CanCall
    /\ dh[k].ctx # 0
    /\ \E r \in {owncloud_readdir(Globals, dh[k].ctx)} :
           /\ Return(r.G, [Result("readdir", dh[k].uri, IF r.lfs.filled THEN 0 ELSE -1)
                              EXCEPT !.buf = r.lfs,
                                     !.src = "listing",
                                     !.dirty = IF r.lfs.filled
                                               THEN heap[dh[k].ctx].dirty ELSE {}],
                     "none")
           /\ dh' = IF r.lfs.filled
                    THEN [dh EXCEPT ![k].yielded = Append(@, r.lfs.name)]
                    ELSE [dh EXCEPT ![k].done = TRUE]
    /\ UNCHANGED <<progresscb, fh>>

Closedir(k) ==
    /\ CanCall
    /\ dh[k].ctx # 0
    /\ Return(free_fetchCtx(Globals, dh[k].ctx),
              Result("closedir", dh[k].uri, 0), "none")
    /\ dh' = [dh EXCEPT ![k] = NoDh]
    /\ UNCHANGED <<progresscb, fh>>

Open(uri, put, fault) ==
    /\ CanCall
    /\ fh.method = "none"
    /\ \E r \in {owncloud_open(Globals, uri, put, fault)} :
           /\ Return(r.G, Result(IF put THEN "open_put" ELSE "open_get", uri,
                                 IF r.handle.method = "none" THEN -1 ELSE 0), fault)
           /\ fh' = r.handle
    /\ UNCHANGED <<progresscb, dh>>

Sendfile(body, fault, gzip, err_etag) ==
    /\ CanCall
    /\ fh.method # "none"
    /\ ~fh.sent
    /\ \E r \in {owncloud_sendfile(Globals, fh, body, fault, gzip, err_etag)} :
           /\ Return(IF fh.method = "PUT" /\ r.rc = 0
                     THEN MarkDirty(r.G, {fh.clean_uri.path}) ELSE r.G,
                     [Result(IF fh.method = "PUT" THEN "sendfile_put"
                                  ELSE "sendfile_get", fh.clean_uri, r.rc)
                              EXCEPT !.wrote = r.wrote, !.code = r.code,
                                     !.body = IF fh.method = "PUT" THEN body
                                              ELSE <<>>],
                     fault)
           /\ fh' = [fh EXCEPT !.sent = TRUE]
    /\ UNCHANGED <<progresscb, dh>>

Close ==
    /\ CanCall
    /\ fh.method # "none"
    /\ \E r \in {owncloud_close(Globals, fh)} :
           Return(IF fh.method = "PUT"
                  THEN MarkDirty(r.G, {fh.clean_uri.path, PutClosed})
                  ELSE r.G,
                  Result(IF fh.method = "PUT" THEN "close_put" ELSE "close_get",
                              fh.clean_uri, r.rc), "none")
    /\ fh' = NoHandle
    /\ UNCHANGED <<progresscb, dh>>

\* close(NULL)
CloseNull ==
    /\ CanCall
    /\ \E r \in {owncloud_close(Globals, NoHandle)} :
           Return(r.G, Result("close_null", BadUri, r.rc), "none")
    /\ UNCHANGED <<progresscb, dh, fh>>

Mkdir(uri, fault, status_read) ==
    /\ CanCall
    /\ \E r \in {owncloud_mkdir(Globals, uri, fault, status_read)} :
           Return(IF r.rc = 0 THEN MarkDirty(r.G, {uri.path}) ELSE r.G,
                  Result("mkdir", uri, r.rc), fault)
    /\ UNCHANGED <<progresscb, dh, fh>>

Rmdir(uri, fault) ==
    /\ CanCall
    /\ \E r \in {owncloud_rmdir(Globals, uri, fault)} :
           Return(IF r.rc = 0 THEN MarkDirty(r.G, {uri.path}) ELSE r.G,
                  Result("rmdir", uri, r.rc), fault)
    /\ UNCHANGED <<progresscb, dh, fh>>

Rename(olduri, newuri, fault) ==
    /\ CanCall
    /\ \E r \in {owncloud_rename(Globals, olduri, newuri, fault)} :
           Return(IF r.rc = 0 THEN MarkDirty(r.G, {olduri.path, newuri.path}) ELSE r.G,
                  [Result("rename", olduri, r.rc) EXCEPT !.to = newuri], fault)
    /\ UNCHANGED <<progresscb, dh, fh>>

Unlink(uri, fault) ==
    /\ CanCall
    /\ \E r \in {owncloud_unlink(Globals, uri, fault)} :
           Return(IF r.rc = 0 /\ uri.parse THEN MarkDirty(r.G, {uri.path}) ELSE r.G,
                  Result("unlink", uri, r.rc), fault)
    /\ UNCHANGED <<progresscb, dh, fh>>

Utimes(uri, modtime, fault) ==
    /\ CanCall
    /\ \E r \in {owncloud_utimes(Globals, uri, modtime, fault)} :
           Return(IF r.rc = 0 THEN MarkDirty(r.G, {uri.path}) ELSE r.G,
                  [Result("utimes", uri, r.rc) EXCEPT
                      !.time = modtime, !.val = r.val, !.code = r.code], fault)
    /\ UNCHANGED <<progresscb, dh, fh>>

\* owncloud_set_property("progress_callback", cb)
SetProgressCallback ==
    /\ CanCall
    /\ ~progresscb
    /\ progresscb' = TRUE
    /\ Return(Globals, [Result("set_property", BadUri, 0) EXCEPT
                            !.key = "progress_callback", !.data = 1], "none")
    /\ UNCHANGED <<dh, fh>>

\* owncloud_set_property(key, &data)
SetProperty(key, data) ==
    /\ CanCall
    /\ \E r \in {owncloud_set_property(Globals, progresscb, key, data)} :
           /\ progresscb' = r.cb
           /\ Return(r.G, [Result("set_property", BadUri, r.rc) EXCEPT
                              !.key = key, !.data = data], "none")
    /\ UNCHANGED <<dh, fh>>

\* vio_module_shutdown
Shutdown ==
    /\ CanCall
    /\ LET G1 == clean_caches([Globals EXCEPT
                                  !.lastDir = NoDir,
                                  !.sess = [f \in DOMAIN @ |->
                                              IF f \in StringProperties THEN 0
                                              ELSE IF f = "error_string"
                                              THEN NeonMsg(-1, "") ELSE @[f]]])
           G2 == [G1 EXCEPT !.sess.ctx = IF @ = "null" THEN @ ELSE "destroyed"]
       IN  Return(G2, Result("shutdown", BadUri, 0), "none")
    /\ UNCHANGED <<progresscb, dh, fh>>

\* vio_module_init, on a module loaded again after its shutdown
ModuleInit ==
    /\ phase = "shutdown"
    /\ left > 0
    /\ Return([Globals EXCEPT !.connected = FALSE, !.sess = ZeroSession],
              Result("init", BadUri, 0), "none")
    /\ UNCHANGED <<progresscb, dh, fh>>

\* the server's clock moves against the local one
ClockDrift ==
    /\ drifts < MaxDrifts
    /\ skew' \in Deltas \ {skew}
    /\ drifts' = drifts + 1
    /\ UNCHANGED <<phase, has_ssl, srv, connected, sess, neon_error, errno,
                   progresscb, heap, propfind_cache, stat_cache, id_cache,
                   lastDir, dh, fh, last, rt, law, made, left, faults>>

InitialServer ==
    [p \in AllPaths |->
        IF p = PD \/ p = PE THEN Dir(OldTime)
        ELSE IF p = PDA THEN File(<<0>>, OldTime)
        ELSE Absent]

\* the module after vio_module_init, in a build with or without SSL, and
\* a host that is to make n calls
Loaded(ssl, n) ==
    /\ phase = "loaded"
    /\ has_ssl = ssl
    /\ srv = InitialServer
    /\ skew = 0
    /\ connected = FALSE
    /\ sess = ZeroSession
    /\ neon_error = NoNeonError
    /\ errno = "0"
    /\ progresscb = FALSE
    /\ heap = [i \in CtxIds |-> FreedCtx]
    /\ propfind_cache = 0
    /\ stat_cache = NoStatCache
    /\ id_cache = NoIdCache
    /\ lastDir = NoDir
    /\ dh = [k \in 1..MaxDirHandles |-> NoDh]
    /\ fh = NoHandle
    /\ last = Result("init", BadUri, 0)
    /\ rt = NoTrip
    /\ law = NoLaw
    /\ made = {}
    /\ left = n
    /\ faults = 0
    /\ drifts = 0

Init == \E ssl \in BOOLEAN : Loaded(ssl, MaxCalls)

Next ==
    \/ \E u \in GoodUris \cup SlashUris, f \in ListingFaultsNow : Stat(u, f)
    \/ \E u \in GoodUris, f \in FaultsNow : FileId(u, f)
    \/ \E u \in DirUris \cup OddUris, k \in 1..MaxDirHandles,
          f \in ListingFaultsNow :
          Opendir(u, k, f)
    \/ \E k \in 1..MaxDirHandles : Readdir(k)
    \/ \E k \in 1..MaxDirHandles : Closedir(k)
    \/ \E u \in FileUris \cup OddUris, put \in BOOLEAN, f \in FaultsNow :
          Open(u, put, f)
    \/ \E b \in Bodies, f \in FaultsNow, gzip \in BOOLEAN, err_etag \in ErrorETags :
          Sendfile(b, f, gzip, err_etag)
    \/ Close
    \/ \E u \in GoodUris \cup OddUris, f \in FaultsNow, sr \in BOOLEAN :
          Mkdir(u, f, sr)
    \/ \E u \in GoodUris \cup OddUris, f \in FaultsNow : Rmdir(u, f)
    \/ \E u \in FileUris \cup OddUris, v \in FileUris, f \in FaultsNow :
          Rename(u, v, f)
    \/ \E u \in GoodUris \cup {BadUri}, f \in FaultsNow : Unlink(u, f)
    \/ \E u \in GoodUris, t \in HostTimes, f \in FaultsNow : Utimes(u, t, f)
    \/ SetProgressCallback
    \/ Shutdown
    \/ ModuleInit
    \/ ClockDrift

Spec == Init /\ [][Next]_vars

\* set_errno_from_http_errcode applied to the status s
MapStatus(s) ==
    /\ left = 0
    /\ errno' = set_errno_from_http_errcode(s)
    /\ last' = [Result("set_errno", BadUri, 0) EXCEPT !.code = s]
    /\ UNCHANGED <<phase, has_ssl, srv, skew, connected, sess, neon_error,
                   progresscb, heap, propfind_cache, stat_cache, id_cache,
                   lastDir, dh, fh, rt, law, made, left, faults, drifts>>

StatusCodes == 0..MaxStatus
NextErrno == \E s \in StatusCodes : MapStatus(s)
SpecErrno == Loaded(TRUE, 0) /\ [][NextErrno]_vars

\* oc_httpdate_parse on the header a server printed for the instant t with
\* the month names `months`, on a host whose TZ is tz, in one of the builds
HttpdateParse(t, months, tz, build) ==
    /\ phase = "loaded"
    /\ left > 0
    /\ \E r \in {oc_httpdate_parse(Rfc1123(t, months), tz, build)} :
           last' = [Result("httpdate_parse", BadUri, 0) EXCEPT
                       !.date = Rfc1123(t, months), !.instant = t, !.tz = tz,
                       !.build = build, !.tm = r.tm, !.result = r.result]
    /\ left' = left - 1
    /\ UNCHANGED <<phase, has_ssl, srv, skew, connected, sess, neon_error, errno,
                   progresscb, heap, propfind_cache, stat_cache, id_cache,
                   lastDir, dh, fh, rt, law, made, faults, drifts>>

\* the days sampled: every 97th, the last day of 1999 and two leap days
SampleDays == {k * 97 : k \in 0..MaxDateSamples} \cup {789, 10956, 11016}
DaySeconds == {0, 45296, 86399}
Instants == {d * 86400 + s : d \in SampleDays, s \in DaySeconds}
\* the zones the host's TZ may name, as seconds east of UTC
TZOffsets == {-18000, 0, 3600}
TimegmBuilds == {"HAVE_TIMEGM", "_WIN32", "portable"}

NextDate ==
    \E t \in Instants, months \in {short_months, OtherMonths},
       tz \in TZOffsets, build \in TimegmBuilds :
        HttpdateParse(t, months, tz, build)
SpecDate == Loaded(TRUE, 1) /\ [][NextDate]_vars

\* neon calls verify_sslcert for a chain with verification failures
VerifySslcert(authcb, failures, digest, chain, reply) ==
    /\ phase = "loaded"
    /\ left > 0
    /\ \E r \in {verify_sslcert(authcb, failures, digest, chain, reply)} :
           last' = [Result("verify_sslcert", BadUri, r.ret) EXCEPT
                       !.authcb = authcb, !.failures = failures, !.chain = chain,
                       !.reply = reply, !.invoked = r.invoked,
                       !.problem = r.problem]
    /\ left' = left - 1
    /\ UNCHANGED <<phase, has_ssl, srv, skew, connected, sess, neon_error, errno,
                   progresscb, heap, propfind_cache, stat_cache, id_cache,
                   lastDir, dh, fh, rt, law, made, faults, drifts>>

\* what the host's callback may leave in the buffer
Replies ==
    {<<>>, <<"y">>, <<"Y">>, <<"y", "e", "s">>, <<"N", "o">>, <<" ", "y">>}

NextSsl ==
    \E authcb \in BOOLEAN, failures \in SUBSET {FailureBits[i] : i \in 1..6},
       digest \in BOOLEAN, chain \in 0..MaxChain, reply \in Replies :
        VerifySslcert(authcb, failures, digest, chain, reply)
SpecSsl == Loaded(TRUE, 1) /\ [][NextSsl]_vars

\* the characters of the cookies, and a stored string as a number (0 for
\* NULL): dav_session.session_key holds the string whose number it is
KeyChars == <<"a", "b", "=", "1", "2", " ", "p", "E", "W", "9", "?">>
CharId(c) == CHOOSE i \in 1..Len(KeyChars) : KeyChars[i] = c
RECURSIVE StrCode(_)
StrCode(str) ==
    IF str = <<>> THEN 0
    ELSE CharId(Head(str)) + (Len(KeyChars) + 1) * StrCode(Tail(str))
StrId(str) == IF str = NULL THEN 0 ELSE 1 + StrCode(str)

\* the answers of a server to the hook: headers over a small alphabet up to
\* MaxHeader characters, and headers made of one or two cookies with
\* attributes, an Expires date among them
HeaderChars == {"a", ";", ",", " "}
RECURSIVE HeadersUpTo(_)
HeadersUpTo(n) ==
    IF n = 0 THEN {<<>>}
    ELSE HeadersUpTo(n - 1) \cup
         {Append(h, c) : h \in {g \in HeadersUpTo(n - 1) : Len(g) = n - 1},
                         c \in HeaderChars}
CookiePairs == {<<"a", "=", "1">>, <<"b", "=", "2">>}
ExpiresAttr == <<" ", "E", "=", "W", ",", " ", "9">>
CookieAttrs ==
    {<<>>, <<" ", "p">>, ExpiresAttr, ExpiresAttr \o <<";", " ", "p">>,
     ExpiresAttr \o <<";">>}
Cookies == {nv \o <<";">> \o at : nv \in CookiePairs, at \in CookieAttrs}
CookieHeaders == Cookies \cup {c \o <<",", " ">> \o d : c \in Cookies, d \in Cookies}
\* <<given, code>>: one call without a status, and three statuses
HookAnswers == {<<FALSE, 204>>, <<TRUE, 204>>, <<TRUE, 401>>, <<TRUE, 404>>}

\* the hook runs on the answer to a request; after a scan that left the
\* header anything may have been stored
PostRequestHook(given, code, header) ==
    /\ phase = "loaded"
    /\ left > 0
    /\ \E r \in {post_request_hook(given, code, header)} :
           /\ last' = [Result("post_request_hook", BadUri, 0) EXCEPT
                          !.given = given, !.code = code, !.header = header,
                          !.cookie = r.key, !.over = r.over]
           /\ phase' = IF r.over THEN "undefined" ELSE phase
           /\ \E k \in IF r.over
                       THEN {sess.session_key, StrId(r.key), StrId(<<"?">>)}
                       ELSE {IF r.key = NULL THEN sess.session_key
                             ELSE StrId(r.key)} :
                  sess' = [sess EXCEPT !.session_key = k]
    /\ left' = left - 1
    /\ UNCHANGED <<has_ssl, srv, skew, connected, neon_error, errno,
                   progresscb, heap, propfind_cache, stat_cache, id_cache,
                   lastDir, dh, fh, rt, law, made, faults, drifts>>

SetCookieHeaders == {NULL} \cup HeadersUpTo(MaxHeader) \cup CookieHeaders

NextCookie ==
    \E a \in HookAnswers, header \in SetCookieHeaders :
        PostRequestHook(a[1], a[2], header)
SpecCookie == Loaded(TRUE, MaxCookieCalls) /\ [][NextCookie]_vars

(* ------------------------------------------------------------------ *)
(* Hosts that keep to one part of the interface                         *)
(* ------------------------------------------------------------------ *)
\* a host that lists, stats and changes the tree on a server that answers
NextTree ==
    \/ \E u \in GoodUris : Stat(u, "none")
    \/ \E u \in FileUris : FileId(u, "none")
    \/ \E u \in DirUris, k \in 1..MaxDirHandles : Opendir(u, k, "none")
    \/ \E k \in 1..MaxDirHandles : Readdir(k)
    \/ \E k \in 1..MaxDirHandles : Closedir(k)
    \/ \E u \in FileUris : Open(u, TRUE, "none")
    \/ \E b \in Bodies : Sendfile(b, "none", FALSE, NULL)
    \/ Close
    \/ \E u \in FileUris, sr \in BOOLEAN : Mkdir(u, "none", sr)
    \/ \E u \in GoodUris : Rmdir(u, "none")
    \/ \E u \in FileUris, v \in FileUris : Rename(u, v, "none")
    \/ \E u \in FileUris : Unlink(u, "none")
    \/ \E u \in FileUris, t \in HostTimes : Utimes(u, t, "none")
    \/ ClockDrift
    \/ Shutdown

SpecTree == Loaded(TRUE, MaxTreeCalls) /\ [][NextTree]_vars

\* a host that transfers files, on a server and a network that may fail
NextTransfer ==
    \/ \E u \in FileUris, put \in BOOLEAN, f \in FaultsNow : Open(u, put, f)
    \/ \E b \in Bodies, f \in FaultsNow, gzip \in BOOLEAN, err_etag \in ErrorETags :
          Sendfile(b, f, gzip, err_etag)
    \/ Close
    \/ \E u \in FileUris, f \in FaultsNow : Stat(u, f)
    \/ \E u \in FileUris, f \in FaultsNow : FileId(u, f)
    \/ SetProgressCallback

SpecTransfer == Loaded(TRUE, MaxTransferCalls) /\ [][NextTransfer]_vars

\* a host that downloads from a server whose error answers carry any ETag
\* header, and asks for content ids
NextETag ==
    \/ \E u \in FileUris, f \in FaultsNow : Open(u, FALSE, f)
    \/ \E f \in FaultsNow, gzip \in BOOLEAN, err_etag \in ErrorETags \cup OddETags :
          Sendfile(<<>>, f, gzip, err_etag)
    \/ Close
    \/ \E u \in FileUris, f \in FaultsNow : Stat(u, f)
    \/ \E u \in FileUris, f \in FaultsNow : FileId(u, f)

SpecETag == Loaded(TRUE, MaxETagCalls) /\ [][NextETag]_vars

\* a host whose URIs may be unusable, on a network that may fail, and which
\* unloads and reloads the module
NextSession ==
    \/ \E u \in DirUris \cup OddUris, f \in FaultsNow : Opendir(u, 1, f)
    \/ \E u \in FileUris \cup OddUris, put \in BOOLEAN, f \in FaultsNow :
          Open(u, put, f)
    \/ Close
    \/ \E u \in FileUris \cup OddUris, f \in FaultsNow, sr \in BOOLEAN :
          Mkdir(u, f, sr)
    \/ \E u \in FileUris \cup OddUris, f \in FaultsNow : Rmdir(u, f)
    \/ \E u \in FileUris \cup OddUris, v \in FileUris, f \in FaultsNow :
          Rename(u, v, f)
    \/ \E u \in FileUris \cup OddUris, f \in FaultsNow : Unlink(u, f)
    \/ \E u \in FileUris, f \in FaultsNow : Stat(u, f)
    \/ \E u \in FileUris, t \in HostTimes, f \in FaultsNow : Utimes(u, t, f)
    \/ \E u \in FileUris, f \in FaultsNow : FileId(u, f)
    \/ Shutdown
    \/ ModuleInit

SpecSession ==
    (\E ssl \in BOOLEAN : Loaded(ssl, MaxSessionCalls)) /\ [][NextSession]_vars

\* a host that creates, removes, renames and touches paths and stats them,
\* with one directory handle, on a server that answers
NextNames ==
    \/ \E u \in GoodUris : Opendir(u, 1, "none")
    \/ Readdir(1)
    \/ \E u \in FileUris, sr \in BOOLEAN : Mkdir(u, "none", sr)
    \/ \E u \in FileUris : Rmdir(u, "none")
    \/ \E u \in FileUris, v \in FileUris : Rename(u, v, "none")
    \/ \E u \in FileUris : Stat(u, "none")
    \/ \E u \in FileUris, t \in HostTimes : Utimes(u, t, "none")
    \/ ClockDrift

SpecNames == Loaded(TRUE, MaxNameCalls) /\ [][NextNames]_vars

\* a host that fills the caches by listing and fetching, writes a file,
\* closes its handles and sets modification times, on a server that answers
\* all but the PROPPATCH requests
NextCaches ==
    \/ \E u \in DirUris : Opendir(u, 1, "none")
    \/ Readdir(1)
    \/ \E u \in FileUris, put \in BOOLEAN : Open(u, put, "none")
    \/ \E b \in Bodies : Sendfile(b, "none", FALSE, NULL)
    \/ Close
    \/ CloseNull
    \/ \E u \in FileUris, t \in HostTimes, f \in FaultsNow : Utimes(u, t, f)
    \/ ClockDrift

SpecCaches == Loaded(TRUE, MaxCacheCalls) /\ [][NextCaches]_vars

\* the keys a host may hand to set_property: the ones the module knows,
\* names of session fields that are no properties, and the empty key
PropertyKeys ==
    StringProperties \cup {"proxy_port", "progress_callback", "read_timeout",
                           "csync_context"}
OtherKeys == {"user", "time_delta", "csync_ctx", ""}
PropertyData == 1..2

\* a host that sets properties before and after it connects, and unloads
\* and reloads the module
NextProperties ==
    \/ \E key \in PropertyKeys \cup OtherKeys, data \in PropertyData :
          SetProperty(key, data)
    \/ \E u \in DirUris : Opendir(u, 1, "none")
    \/ Shutdown
    \/ ModuleInit

SpecProperties == Loaded(TRUE, MaxPropertyCalls) /\ [][NextProperties]_vars

(* ------------------------------------------------------------------ *)
(* Properties                                                          *)
(* ------------------------------------------------------------------ *)
ReadOps == {"stat", "file_id", "opendir"}

\* C1: after a successful mutation of a path P, a stat, opendir or file_id
\* on P is not answered from a cache entry that was filled before the
\* mutation
C1_NoAnswerFromOlderEntry ==
    (last.op \in ReadOps /\ last.rc = 0) => last.uri.path \notin last.dirty

\* C2: once a PUT handle is closed, no stat or readdir returns attributes
\* fetched from the server before that close
C2_NothingOlderThanPutClose ==
    (last.op \in {"stat", "readdir"} /\ last.rc = 0) => PutClosed \notin last.dirty

\* C3: the mtime of a successful stat plus the session's current time_delta
\* is the last-modified instant the server reports for the URI (read on an
\* answer no mutation has outdated)
C3_MtimePlusDelta ==
    (/\ last.op = "stat"
     /\ last.rc = 0
     /\ last.dirty = {}
     /\ Exists(srv, StripSlashes(last.uri.path)))
    => last.buf.mtime + sess.time_delta = srv[StripSlashes(last.uri.path)].mtime

Occurrences(name, seq) == Cardinality({i \in 1..Len(seq) : seq[i] = name})

\* C5: a directory handle opened after an entry F was created in the
\* directory through this module, read to its end, has yielded F exactly once
C5_CreatedEntryListedOnce ==
    \A k \in 1..MaxDirHandles :
        (dh[k].ctx # 0 /\ dh[k].done) =>
            \A q \in dh[k].expect \cap made :
                Occurrences(c_basename(q), dh[k].yielded) = 1

\* the errno the table of the interface description lists for a status
ListedErrno(s) ==
    IF s \in 200..207 \/ s = 304 THEN "0"
    ELSE IF s \in {401, 402, 405, 407} THEN "EPERM"
    ELSE IF s \in {301, 303, 404, 410} THEN "ENOENT"
    ELSE IF s \in {408, 504} THEN "EAGAIN"
    ELSE IF s = 423 THEN "EACCES"
    ELSE IF s \in {400, 403, 409, 411, 412, 414, 415, 424, 501} THEN "EINVAL"
    ELSE IF s = 413 THEN "EFBIG"
    ELSE IF s = 507 THEN "ENOSPC"
    ELSE IF s = 503 THEN "ERRNO_SERVICE_UNAVAILABLE"
    ELSE "EIO"

\* C6 as stated: for every status the mapper sets the errno the table
\* lists, 0 for each of 200-207
C6_TableAsListed ==
    last.op = "set_errno" => errno = ListedErrno(last.code)

\* C6: for every status the mapper sets the errno the table lists, except
\* that 206 is an I/O error: 0 is set for 200-205, 207 and 304 only
C6_TableBut206 ==
    last.op = "set_errno" =>
        errno = IF last.code = 206 THEN "EIO" ELSE ListedErrno(last.code)

\* the mapper has been applied to 206
C6_Witness == last.op = "set_errno" /\ last.code = 206 /\ errno = "EIO"

SendfileOps == {"sendfile_put", "sendfile_get"}

\* C7: when the server answers the request of a sendfile with a status
\* outside 2xx, sendfile returns 1, errno is what the table lists for the
\* status, an ERROR event with that status is emitted if a progress callback
\* is registered, and the connected flag and the three caches keep their
\* values
C7_SoftFailure ==
    [][(/\ left' # left
        /\ last'.op \in SendfileOps
        /\ last'.code # 0
        /\ last'.code \div 100 # 2)
       => (/\ last'.rc = 1
           /\ errno' = ListedErrno(last'.code)
           /\ progresscb =>
                 (/\ last'.events # <<>>
                  /\ last'.events[Len(last'.events)].ev = "ERROR"
                  /\ last'.events[Len(last'.events)].code = last'.code)
           /\ connected' = connected
           /\ propfind_cache' = propfind_cache
           /\ stat_cache' = stat_cache
           /\ id_cache' = id_cache)]_vars

ConnectingOps == {"open_put", "open_get", "opendir", "mkdir", "rmdir", "rename"}

\* C8: a call of open, opendir, mkdir, rmdir or rename in which the URI
\* does not parse or dav_connect fails reports failure and issues no request
C8_FailedConnectFailsTheCall ==
    (last.op \in ConnectingOps /\ (~last.uri.parse \/ ~connected))
    => (last.rc = -1 /\ last.nreq = 0 /\ phase # "undefined")

\* C9: no call issues a request while the connected flag is not set
C9_NoRequestBeforeConnect == ~last.unconn

\* C10: the connected flag implies that the session context exists and has
\* not been destroyed
C10_ConnectedImpliesSession == connected => sess.ctx = "valid"

\* C11: once the connected flag is set, every call but vio_module_init
\* leaves it set, whatever failure the call meets, and no call but
\* vio_module_shutdown touches the session context
C11_ConnectedStays ==
    [][(connected /\ left' # left) =>
          IF last'.op = "init" THEN ~connected'
          ELSE /\ connected'
               /\ last'.op # "shutdown" => sess'.ctx = sess.ctx]_vars

\* a request that could not reach the server, made on a connected session
C11_Witness ==
    /\ connected
    /\ sess.ctx = "valid"
    /\ phase = "loaded"
    /\ last.op \in {"mkdir", "rmdir", "rename", "stat", "utimes"}
    /\ last.rc = -1
    /\ last.nreq > 0
    /\ errno = "ERRNO_CONNECT"

\* the handles opendir handed out on the context i and the host has not
\* closed, plus one if i is the listing cache's entry
Holders(i) ==
    Cardinality({k \in 1..MaxDirHandles : dh[k].ctx = i})
    + (IF propfind_cache = i THEN 1 ELSE 0)

\* C12: between calls the reference count of every live listing context is
\* the number of open directory handles on it plus one if it is the listing
\* cache's entry, and a freed context has neither a handle nor the cache
\* pointing to it
C12_RefCounts ==
    \A i \in CtxIds :
        IF heap[i].live THEN heap[i].ref = Holders(i) ELSE Holders(i) = 0

\* two handles on one context that the cache has since replaced
C12_Witness ==
    \E i \in CtxIds :
        /\ heap[i].live
        /\ heap[i].ref = 2
        /\ propfind_cache # i
        /\ propfind_cache # 0
        /\ dh[1].ctx = i
        /\ dh[2].ctx = i

\* C13: a mkdir of a path that exists on the server returns -1 with errno
\* EEXIST (so does the second of two mkdir of one path); a mkdir returns 0
\* exactly when the MKCOL created the collection; and another refusal sets
\* the errno of its status
C13_MkdirExistsAlready ==
    [][(left' # left /\ last'.op = "mkdir" /\ phase' # "undefined") =>
          IF Exists(srv, StripSlashes(last'.uri.path))
          THEN last'.rc = -1 /\ errno' = "EEXIST"
          ELSE IF ParentExists(srv, StripSlashes(last'.uri.path))
          THEN last'.rc = 0 /\ Exists(srv', StripSlashes(last'.uri.path))
          ELSE last'.rc = -1 /\ errno' = set_errno_from_http_errcode(409)]_vars

\* C14: the stat that follows mkdir(D) and a successful rmdir(D) fails with
\* ENOENT, whatever the caches held before the mkdir
C14_StatAfterRmdir ==
    (law.kind = "mkdir" /\ law.step = 3 /\ phase = "loaded")
    => (last.rc = -1 /\ errno = "ENOENT")

\* C15: after rename(A, B) has returned 0 the stat of A fails with ENOENT,
\* and the stat of B returns 0 with the size and the modification time of
\* the resource the server now holds at B
C15_StatAfterRename ==
    (law.kind = "rename" /\ phase = "loaded") =>
        /\ law.step = 2 => (last.rc = -1 /\ errno = "ENOENT")
        /\ law.step = 3 =>
              /\ last.rc = 0
              /\ last.buf.filled
              /\ last.buf.size = Len(srv[StripSlashes(law.to.path)].body)
              /\ last.buf.mtime + sess.time_delta
                     = srv[StripSlashes(law.to.path)].mtime

\* C16: the stat that follows a utimes(P, t) that returned 0 returns an
\* mtime within one second of t, whatever time delta its PROPFIND samples
C16_StatAfterUtimes ==
    (law.kind = "utimes" /\ law.step = 2 /\ phase = "loaded")
    => (last.rc = 0 /\ last.buf.mtime - law.time \in -1..1)

\* C17: unlink returns 0 whatever happens: a URI that does not parse and a
\* failed connect leave errno EINVAL, and a DELETE that left the resource
\* on the server leaves an errno other than 0
C17_UnlinkReturnsZero ==
    [][(left' # left /\ last'.op = "unlink") =>
          /\ last'.rc = 0
          /\ (~last'.uri.parse \/ ~connected') => errno' = "EINVAL"
          /\ (/\ last'.uri.parse
              /\ connected'
              /\ Exists(srv', StripSlashes(last'.uri.path)))
             => errno' # "0"]_vars

\* an unlink whose DELETE did not reach the server, and returned 0
C17_Witness ==
    /\ last.op = "unlink"
    /\ last.rc = 0
    /\ last.nreq = 1
    /\ errno = "ERRNO_CONNECT"
    /\ Exists(srv, StripSlashes(last.uri.path))

\* a header value without the one pair of double quotes around it
Unquoted(h) ==
    IF h = NULL THEN NULL
    ELSE IF Len(h) >= 2 /\ h[1] = QUOTE /\ h[Len(h)] = QUOTE
    THEN SubSeq(h, 2, Len(h) - 1)
    ELSE h

\* C18: get_file_id returns the id the ETag cache holds when the cached URL
\* is the path, otherwise the md5 a stat of the path yields, each without
\* its surrounding double quotes; it returns NULL when the cache misses and
\* the stat fails
C18_FileId ==
    [][(left' # left /\ last'.op = "file_id" /\ phase' # "undefined") =>
          IF id_cache.uri # NoDir /\ id_cache.uri = last'.uri
          THEN last'.id = Unquoted(id_cache.id)
          ELSE \E f \in Faults :
                  \E st \in {owncloud_stat(Globals, last'.uri, f)} :
                      last'.id = IF st.rc = 0 THEN Unquoted(st.buf.md5) ELSE NULL]_vars

\* an id answered from the ETag cache a GET filled with a quoted header
C18_Witness ==
    /\ last.op = "file_id"
    /\ last.src = "id_cache"
    /\ id_cache.id[1] = QUOTE
    /\ last.id # NULL
    /\ last.id = SubSeq(id_cache.id, 2, Len(id_cache.id) - 1)

Quoted(h) == h # NULL /\ Len(h) >= 2 /\ h[1] = QUOTE /\ h[Len(h)] = QUOTE

\* the md5 of every resource of every live listing and the md5 of the stat
\* cache carry no surrounding double quotes
Md5sUnquoted ==
    /\ \A i \in CtxIds :
          heap[i].live =>
              \A j \in 1..Len(heap[i].list) : ~Quoted(heap[i].list[j].md5)
    /\ ~Quoted(stat_cache.md5)

ListedKeys ==
    {"session_key", "proxy_type", "proxy_host", "proxy_user", "proxy_pwd",
     "proxy_port", "progress_callback", "read_timeout", "csync_context"}

\* C20: set_property returns 0 for the nine listed keys and -1 for every
\* other key; a successful call changes the field its key names and nothing
\* else, and a failing call changes nothing
C20_SetProperty ==
    [][(left' # left /\ last'.op = "set_property") =>
          /\ last'.rc = IF last'.key \in ListedKeys THEN 0 ELSE -1
          /\ UNCHANGED <<srv, connected, neon_error, errno, heap, propfind_cache,
                         stat_cache, id_cache, lastDir, dh, fh>>
          /\ IF last'.key = "progress_callback"
             THEN sess' = sess /\ progresscb' = (last'.data # 0)
             ELSE /\ progresscb' = progresscb
                  /\ sess' = IF last'.key = "csync_context"
                             THEN [sess EXCEPT !.csync_ctx = last'.data]
                             ELSE IF last'.key \in ListedKeys
                             THEN [sess EXCEPT ![last'.key] = last'.data]
                             ELSE sess]_vars

\* the read timeout set on a connected session: the call returned 0, the
\* field holds the value, and the proxy port is as it was
C20_Witness ==
    /\ connected
    /\ last.op = "set_property"
    /\ last.key = "read_timeout"
    /\ last.rc = 0
    /\ sess.read_timeout = last.data
    /\ sess.proxy_port = 0

\* the calls that hand their URI to dav_connect
DavConnectOps == ConnectingOps \cup {"unlink"}

C22_DateCodec ==
    last.op = "httpdate_parse" =>
        IF \E n \in 1..12 : short_months[n] = SubSeq(last.date, 9, 11)
        THEN last.result = last.instant
        ELSE last.tm.tm_mon = 12

\* the last second of 29 Feb 2000, parsed on a host west of Greenwich in
\* the build that calls mktime
C22_Witness ==
    /\ last.op = "httpdate_parse"
    /\ last.build = "portable"
    /\ last.tz = -18000
    /\ last.instant = 11016 * 86400 + 86399
    /\ last.tm.tm_mon = 1
    /\ last.tm.tm_mday = 29
    /\ last.tm.n = 7
    /\ last.result = last.instant

\* C23: verify_sslcert returns 0 only if an authentication callback is
\* registered, was invoked for the certificate, and left a reply that
\* starts with y or Y; it returns -1 in every other case, with no callback
\* and with an empty reply too
C23_SslAccept ==
    last.op = "verify_sslcert" =>
        /\ last.rc \in {0, -1}
        /\ last.rc = 0 <=>
              (/\ last.authcb
               /\ last.invoked
               /\ last.reply # <<>>
               /\ last.reply[1] \in {"y", "Y"})
        /\ last.invoked = last.authcb

\* a chain with every failure whose text fills the buffer, accepted on the
\* reply "yes"
C23_Witness ==
    /\ last.op = "verify_sslcert"
    /\ last.rc = 0
    /\ last.reply = <<"y", "e", "s">>
    /\ Cardinality(last.failures) = 6
    /\ last.problem.len = LEN

ListedNames(ctx) ==
    {ctx.list[j].name :
        j \in {i \in 1..Len(ctx.list) :
                 ne_path_compare(ctx.target, ne_path_escape(ctx.list[i].uri)) # 0}}

C27_CloseAndCaches ==
    [][(left' # left /\ last'.op \in {"close_put", "close_get", "close_null"}) =>
          /\ last'.op = "close_put" =>
                (/\ last'.rc = 0
                 /\ propfind_cache' = 0
                 /\ stat_cache'.name = NULL
                 /\ stat_cache'.md5 = NULL
                 /\ id_cache' = NoIdCache)
          /\ last'.op = "close_get" =>
                (/\ last'.rc = 0
                 /\ UNCHANGED <<propfind_cache, stat_cache, id_cache, heap>>)
          /\ last'.op = "close_null" =>
                (/\ last'.rc = -1
                 /\ errno' = "EBADF"
                 /\ UNCHANGED <<srv, connected, sess, neon_error, progresscb, heap,
                                propfind_cache, stat_cache, id_cache, lastDir,
                                dh, fh>>)]_vars

\* a PUT handle closed as the last of the calls, over a listing that a
\* directory handle still holds and a readdir has read: the caches are empty
C27_Witness ==
    /\ last.op = "close_put"
    /\ propfind_cache = 0
    /\ stat_cache.name = NULL
    /\ id_cache = NoIdCache
    /\ dh[1].ctx # 0
    /\ PutClosed \in heap[dh[1].ctx].dirty
    /\ Len(dh[1].yielded) = 1
    /\ left = 0

\* the errno of a request that failed: of the transport's result when no
\* answer came or the server asked for credentials, else of the status
TransportErrno(code) ==
    IF code = 0 THEN "ERRNO_CONNECT"
    ELSE IF code = 401 THEN "ERRNO_USER_UNKNOWN_ON_SERVER"
    ELSE ListedErrno(code)

\* C28: utimes sends times[1].tv_sec plus the session's time delta; when
\* the PROPPATCH succeeds it returns 0 and the three caches are empty
\* afterwards; when it fails it returns -1, errno is that of the transport's
\* result, and the three caches are as they were
C28_Utimes ==
    [][(left' # left /\ last'.op = "utimes" /\ phase' = "loaded") =>
          /\ last'.val = last'.time + sess.time_delta
          /\ IF last'.code \div 100 = 2
             THEN /\ last'.rc = 0
                  /\ srv'[StripSlashes(last'.uri.path)].mtime = last'.val
                  /\ propfind_cache' = 0
                  /\ stat_cache'.name = NULL
                  /\ stat_cache'.md5 = NULL
                  /\ id_cache' = NoIdCache
             ELSE /\ last'.rc = -1
                  /\ errno' = TransportErrno(last'.code)
                  /\ srv' = srv
                  /\ UNCHANGED <<propfind_cache, stat_cache, id_cache, heap>>]_vars

\* a utimes that the server refused for lack of space, over three filled
\* caches, on a session whose time delta is not 0
C28_Witness ==
    /\ last.op = "utimes"
    /\ last.rc = -1
    /\ last.code = 507
    /\ errno = "ENOSPC"
    /\ propfind_cache # 0
    /\ stat_cache.name # NULL
    /\ id_cache # NoIdCache
    /\ sess.time_delta # 0
    /\ last.val = last.time + sess.time_delta

C30_TargetOfLastRequest ==
    (phase = "loaded" /\ propfind_cache # 0 /\ last.listed.how # "none") =>
        heap[propfind_cache].target = last.listed.target

\* C30: the cached listing's target is the normalized path of the most
\* recent listing request that hit the cache or succeeded with a PROPFIND:
\* such a request leaves its own path as the target, and every other step
\* (a failed request among them) that leaves a listing cached leaves the
\* target that was cached before
C30_CacheTarget ==
    [][(phase' = "loaded" /\ propfind_cache' # 0) =>
          IF left' # left /\ last'.listed.how \in {"hit", "propfind"}
          THEN heap'[propfind_cache'].target = last'.listed.target
          ELSE /\ propfind_cache # 0
               /\ heap'[propfind_cache'].target = heap[propfind_cache].target]_vars

\* a listing request that failed while the listing of another path was
\* cached: the cache keeps the target of the older request
C30_Witness ==
    /\ phase = "loaded"
    /\ last.listed.how = "failed"
    /\ propfind_cache # 0
    /\ heap[propfind_cache].live
    /\ heap[propfind_cache].target # last.listed.target

\* the four fields of the session that hold the server's clock delta
DeltaFields(ss) ==
    <<ss.time_delta, ss.prev_delta, ss.time_delta_cnt, ss.time_delta_sum>>

\* C31: after a PROPFIND that succeeds, time_delta is the server's time
\* minus the local clock, prev_delta the time_delta held before the call,
\* time_delta_cnt has grown by one and time_delta_sum by the sample, and the
\* listing is handed out however far the sample is from the one before; a
\* listing served from the cache changes none of the four fields
C31_TimeDelta ==
    [][(left' # left /\ phase' = "loaded") =>
          /\ (/\ last'.answer.ret = "NE_OK"
              /\ last'.answer.code \div 100 = 2
              /\ last'.answer.content_type = XmlType) =>
                /\ last'.listed.how = "propfind"
                /\ DeltaFields(sess') =
                      <<skew, sess.time_delta, sess.time_delta_cnt + 1,
                        sess.time_delta_sum + skew>>
          /\ last'.listed.how = "hit" => DeltaFields(sess') = DeltaFields(sess)]_vars

\* the second PROPFIND of a session, a minute off the first sample: the
\* listing is handed out and the sample has replaced the first
C31_Witness ==
    /\ last.listed.how = "propfind"
    /\ last.rc = 0
    /\ sess.time_delta_cnt = 2
    /\ sess.time_delta = 60
    /\ sess.prev_delta = 0
    /\ sess.time_delta_sum = 60

\* the characters of a string
Chars(str) == {str[i] : i \in 1..Len(str)}

\* C32: the hook changes the stored session cookie only when the status is
\* 2xx or 401 and the Set-Cookie header has a segment that ends with ';';
\* for every other answer the stored cookie is as it was
C32_CookieFrame ==
    [][(/\ left' # left
        /\ last'.op = "post_request_hook"
        /\ sess'.session_key # sess.session_key) =>
          /\ last'.given
          /\ last'.code \div 100 = 2 \/ last'.code = 401
          /\ last'.header # NULL
          /\ ";" \in Chars(last'.header)]_vars

\* a 401 answer whose header carries b=2 replaced the cookie a=1 of the
\* answer before
C32_Witness ==
    /\ last.op = "post_request_hook"
    /\ last.code = 401
    /\ last.header = <<"b", "=", "2", ";">>
    /\ last.cookie = <<"b", "=", "2">>
    /\ sess.session_key = StrId(last.cookie)
    /\ left = MaxCookieCalls - 2

\* the name=value of the last cookie of a header made of cookies
LastPair(h) ==
    CHOOSE nv \in CookiePairs :
        \E at \in CookieAttrs :
            \/ h = nv \o <<";">> \o at
            \/ \E c \in Cookies : h = c \o <<",", " ">> \o nv \o <<";">> \o at

\* C33: for a Set-Cookie header of one or more cookies joined by ', ', each
\* a name=value followed by ';' and attributes that may hold a ', ', the
\* hook stores the name=value of the last cookie of the header
C33_LastCookieWins ==
    (/\ last.op = "post_request_hook"
     /\ last.given
     /\ last.code \div 100 = 2 \/ last.code = 401
     /\ last.header \in CookieHeaders) =>
        /\ last.cookie = LastPair(last.header)
        /\ sess.session_key = StrId(LastPair(last.header))

\* C39: for every Set-Cookie header the scan ends with its position never
\* past the terminating NUL of the header, also when a ',' is the last
\* character of the header
C39_ScanStaysInside ==
    last.op = "post_request_hook" => ~last.over

\* C34: after a namespace call or a utimes that failed on its request (no
\* connection, credentials refused, a status outside 2xx) the error string
\* of the session is the HTTP library's message for that failure
C34_ErrorStringIsCurrent ==
    (/\ phase = "loaded"
     /\ last.op \in {"mkdir", "rmdir", "rename", "utimes"}
     /\ last.rc = -1
     /\ last.nreq > 0) =>
        sess.error_string = neon_error

\* what the stat cache holds of an entry
CacheData(c) == <<c.name, c.type, c.size, c.mtime, c.md5>>

\* C35: the stat cache is one entry; only readdir fills it, and after a
\* readdir that returned an entry it holds that entry's basename, type,
\* size, mtime and content id; a stat is answered from the cache only when
\* the cached basename is the basename of the URI asked for
C35_StatCache ==
    [][/\ (stat_cache'.name # NULL /\ CacheData(stat_cache') # CacheData(stat_cache))
            => (left' # left /\ last'.op = "readdir" /\ last'.rc = 0)
       /\ (left' # left /\ last'.op = "readdir" /\ last'.rc = 0
                        /\ phase' = "loaded")
            => CacheData(stat_cache') = CacheData(last'.buf)
       /\ (left' # left /\ last'.op = "stat" /\ last'.src = "stat_cache")
            => /\ stat_cache.name # NULL
               /\ stat_cache.name = UriBasename(last'.uri)
               /\ CacheData(last'.buf) = CacheData(stat_cache)]_vars

\* a stat of /d/a answered from the cache that a readdir of /d filled
C35_Witness ==
    /\ last.op = "stat"
    /\ last.rc = 0
    /\ last.src = "stat_cache"
    /\ last.uri = Uri("owncloud", PDA)
    /\ stat_cache.name = UriBasename(last.uri)
    /\ CacheData(last.buf) = CacheData(stat_cache)

\* C37: a stat answered from the stat cache, with nothing changed on the
\* server since the cache was filled, returns the type, size and mtime of
\* the resource at the URI asked for, also when a resource of the same
\* basename in another directory is the one readdir yielded
C37_StatCacheSameResource ==
    (/\ phase = "loaded"
     /\ last.op = "stat"
     /\ last.src = "stat_cache"
     /\ last.dirty = {}) =>
        /\ Exists(srv, StripSlashes(last.uri.path))
        /\ last.buf.type = IF srv[StripSlashes(last.uri.path)].kind = "dir"
                           THEN "directory" ELSE "regular"
        /\ srv[StripSlashes(last.uri.path)].kind = "file" =>
                last.buf.size = Len(srv[StripSlashes(last.uri.path)].body)
        /\ last.buf.mtime + sess.time_delta = srv[StripSlashes(last.uri.path)].mtime

StartEvents == {"START_UPLOAD", "START_DOWNLOAD"}
TerminalEvents == {"FINISHED_UPLOAD", "FINISHED_DOWNLOAD", "ERROR"}
\* the positions of the events of `kinds` among the events ev
EventsOf(ev, kinds) == {i \in 1..Len(ev) : ev[i].ev \in kinds}

\* C36: in a sendfile made with a progress callback registered, every START
\* event is followed before the return by exactly one terminal event for
\* the same URL, FINISHED for the direction of the transfer when sendfile
\* returns 0 and ERROR otherwise; no terminal event comes without a START
\* before it, and the notifier of the transfer is gone at the return
C36_TransferEvents ==
    [][(/\ left' # left
        /\ last'.op \in {"sendfile_put", "sendfile_get"}
        /\ progresscb
        /\ phase' = "loaded") =>
          /\ \A i \in EventsOf(last'.events, StartEvents) :
                /\ Cardinality({j \in EventsOf(last'.events, TerminalEvents) :
                                   j > i}) = 1
                /\ \A j \in EventsOf(last'.events, TerminalEvents) :
                      /\ last'.events[j].uri = last'.events[i].uri
                      /\ last'.events[j].ev =
                            IF last'.rc # 0 THEN "ERROR"
                            ELSE IF last'.events[i].ev = "START_UPLOAD"
                            THEN "FINISHED_UPLOAD" ELSE "FINISHED_DOWNLOAD"
          /\ \A j \in EventsOf(last'.events, TerminalEvents) :
                \E i \in EventsOf(last'.events, StartEvents) : i < j
          /\ ~last'.notifier]_vars

\* a download that the server refused with 507: START_DOWNLOAD, then ERROR
\* for the same URL, and sendfile returned 1
C36_Witness ==
    /\ last.op = "sendfile_get"
    /\ last.rc = 1
    /\ last.code = 507
    /\ Len(last.events) = 2
    /\ last.events[1].ev = "START_DOWNLOAD"
    /\ last.events[2].ev = "ERROR"
    /\ last.events[2].uri = last.events[1].uri
    /\ ~last.notifier

\* C38: with every handle closed at most once, no directory handle and no
\* listing-cache pointer refers to a destroyed context; a context is
\* destroyed exactly when its reference count reaches zero (a live one has
\* a count above zero, and one that goes held a single reference that the
\* call released); and with every handle closed and the caches cleared no
\* context is left allocated
C38_ContextLifetime ==
    [][phase' # "undefined" =>
          /\ \A k \in 1..MaxDirHandles : dh'[k].ctx # 0 => heap'[dh'[k].ctx].live
          /\ propfind_cache' # 0 => heap'[propfind_cache'].live
          /\ \A i \in CtxIds :
                /\ heap'[i].live => heap'[i].ref > 0
                /\ (heap[i].live /\ ~heap'[i].live) =>
                      /\ heap[i].ref = 1
                      /\ \A k \in 1..MaxDirHandles : dh'[k].ctx # i
                      /\ propfind_cache' # i
          /\ ((\A k \in 1..MaxDirHandles : dh'[k].ctx = 0) /\ propfind_cache' = 0)
                => \A i \in CtxIds : ~heap'[i].live]_vars

\* a listing was fetched and its handle closed, and a utimes that succeeded
\* cleared the caches: no context is allocated
C38_Witness ==
    /\ phase = "loaded"
    /\ last.op = "utimes"
    /\ last.rc = 0
    /\ sess.time_delta_cnt >= 1
    /\ propfind_cache = 0
    /\ \A k \in 1..MaxDirHandles : dh[k].ctx = 0
    /\ \A i \in CtxIds : ~heap[i].live

\* the length owncloud_file_id computes for the copy without the quotes
StrippedLen(header) == Len(header) - 2

\* the test owncloud_file_id makes before it cuts the quotes away
SurroundedByQuotes(header) ==
    header # NULL /\ Len(header) > 0
        /\ header[1] = QUOTE /\ header[Len(header)] = QUOTE

\* C40: for every non-empty ETag the ETag cache holds or a stat returns as
\* md5, the length get_file_id computes for the copy without the quotes is
\* not negative
C40_LengthNotNegative ==
    [][(left' # left /\ last'.op = "file_id") =>
          IF id_cache.uri # NoDir /\ id_cache.uri = last'.uri
          THEN SurroundedByQuotes(id_cache.id) => StrippedLen(id_cache.id) >= 0
          ELSE \A f \in Faults :
                  \A st \in {owncloud_stat(Globals, last'.uri, f)} :
                      (st.rc = 0 /\ SurroundedByQuotes(st.buf.md5))
                          => StrippedLen(st.buf.md5) >= 0]_vars
====
